---- MODULE Spec2Model ----
(***************************************************************************)
(* A model of the CSS 2.1 grammar engine of xhtml2pdf/w3c/cssParser.py     *)
(* (class CSSParser) together with a recording builder.                    *)
(*                                                                         *)
(* Source text is a sequence of one-character strings.  Every production   *)
(* _parse_* of the engine is an operator from the remaining source to a    *)
(* record [st, src, val, ev]: st is "ok" or the name of the exception that *)
(* escapes, src the remainder, val the production's result and ev the      *)
(* builder hooks called, in call order.  The operations that differ        *)
(* between interpreter versions (filter(), ordering against None) follow   *)
(* CPython 3, the interpreter the pattern of line 311 is written for.      *)
(***************************************************************************)
EXTENDS Integers, Sequences, FiniteSets, TLC

\* self.<method>(<args>) of the parser, defined after the methods
RECURSIVE self(_, _)

(***************************************************************************)
(* Characters and character classes of the pattern library.                *)
(***************************************************************************)
LowerSeq ==
  << "a", "b", "c", "d", "e", "f", "g", "h", "i", "j", "k", "l", "m",
     "n", "o", "p", "q", "r", "s", "t", "u", "v", "w", "x", "y", "z" >>

UpperSeq ==
  << "A", "B", "C", "D", "E", "F", "G", "H", "I", "J", "K", "L", "M",
     "N", "O", "P", "Q", "R", "S", "T", "U", "V", "W", "X", "Y", "Z" >>

Lower == { LowerSeq[i] : i \in DOMAIN LowerSeq }

Upper == { UpperSeq[i] : i \in DOMAIN UpperSeq }

Letters == Lower \cup Upper

Digits == { "0", "1", "2", "3", "4", "5", "6", "7", "8", "9" }

\* i_hex, line 300
i_hex == Digits \cup { "a", "b", "c", "d", "e", "f", "A", "B", "C", "D", "E", "F" }

\* i_nonascii, line 301: the code points 0x80..0xFF, each written as one
\* character of the model
i_nonascii == { "<e9>", "<fc>" }

\* the code points above 0xFF, each written as one character of the model
Beyond == { "<3a9>" }

\* what str.lstrip() and the pattern \s remove
Whitespace == { " ", "\t", "\n", "\r", "\f" }

\* the characters of the model outside the class [ -~\200-\377]: the ASCII
\* control characters and the code points above 0xFF
Control == { "\t", "\n", "\r", "\f" } \cup Beyond

\* re.I: the lower-case form of a character
ToLower(c) ==
  IF c \in Upper THEN LowerSeq[CHOOSE i \in DOMAIN UpperSeq : UpperSeq[i] = c] ELSE c

(***************************************************************************)
(* Python values and string operations.                                    *)
(***************************************************************************)
\* None, as a value no source text equals (its one element is no character)
None == << "None" >>

\* src[i-1:i] for a 1-based position i: "" beyond either end
At(s, i) == IF i >= 1 /\ i <= Len(s) THEN s[i] ELSE ""

\* src[n:]
Drop(s, n) == IF n >= Len(s) THEN << >> ELSE IF n <= 0 THEN s ELSE SubSeq(s, n + 1, Len(s))

\* src[:n]
Take(s, n) == IF n >= Len(s) THEN s ELSE IF n <= 0 THEN << >> ELSE SubSeq(s, 1, n)

\* src[i-1:j-1]: the characters at positions i .. j-1
Slice(s, i, j) == IF j <= i THEN << >> ELSE SubSeq(s, i, j - 1)

\* src.startswith(p)
StartsWith(s, p) == Len(s) >= Len(p) /\ SubSeq(s, 1, Len(p)) = p

RECURSIVE SkipWs(_, _)
\* the first position at or after i that holds no whitespace
SkipWs(s, i) == IF At(s, i) \in Whitespace THEN SkipWs(s, i + 1) ELSE i

\* src.lstrip() leaving the whitespace where it is
NoLStrip(s) == s

\* src.lstrip()
LStrip(s) == Drop(s, SkipWs(s, 1) - 1)

RECURSIVE RStripEnd(_, _)
RStripEnd(s, n) == IF n >= 1 /\ s[n] \in Whitespace THEN RStripEnd(s, n - 1) ELSE n

\* src.strip()
Strip(s) == LStrip(Take(s, RStripEnd(s, Len(s))))

RECURSIVE FindChar(_, _, _)
\* src.find(c), searched from position i: the 1-based position, 0 when absent
FindChar(s, c, i) ==
  IF i > Len(s) THEN 0 ELSE IF s[i] = c THEN i ELSE FindChar(s, c, i + 1)

(***************************************************************************)
(* The pattern library, lines 295-353.  A matcher takes the text and a     *)
(* position and returns the position after the match, 0 when there is no   *)
(* match (re.match, anchored at the position).                             *)
(***************************************************************************)
RECURSIVE HexRun(_, _, _)
\* (?:hex){1,k}, greedy: the number of hex digits at i, at most k
HexRun(s, i, k) ==
  IF k > 0 /\ At(s, i) \in i_hex THEN 1 + HexRun(s, i + 1, k - 1) ELSE 0

\* the longest unicode escape (line 302): six is {1,6}
MaxEscapeHex == 6

\* i_escape, lines 302-303: \hex{1,6}\s? or a backslash and a character of
\* [ -~\200-\377]; the length of the first (greedy) alternative, 0 for none
EscapeLen(s, i) ==
  IF At(s, i) # "\\" THEN 0
  ELSE IF At(s, i + 1) \in i_hex
    THEN LET k == HexRun(s, i + 1, MaxEscapeHex)
         IN  1 + k + (IF At(s, i + 1 + k) \in Whitespace THEN 1 ELSE 0)
  ELSE IF At(s, i + 1) # "" /\ At(s, i + 1) \notin Control THEN 2
  ELSE 0

\* i_nmstart, line 305: \-[^0-9] | [A-Za-z_] | nonascii | escape
NmStartLen(s, i) ==
  IF At(s, i) = "-" /\ At(s, i + 1) # "" /\ At(s, i + 1) \notin Digits THEN 2
  ELSE IF At(s, i) \in Letters \cup { "_" } \cup i_nonascii THEN 1
  ELSE EscapeLen(s, i)

\* i_nmchar, line 307: [-0-9A-Za-z_] | nonascii | escape
NmCharLen(s, i) ==
  IF At(s, i) \in { "-", "_" } \cup Digits \cup Letters \cup i_nonascii THEN 1
  ELSE EscapeLen(s, i)

RECURSIVE NmCharsEnd(_, _)
\* (?:nmchar)*, greedy
NmCharsEnd(s, i) ==
  IF NmCharLen(s, i) > 0 THEN NmCharsEnd(s, i + NmCharLen(s, i)) ELSE i

\* i_ident, line 308.  No shorter match is ever needed by a pattern that
\* continues after an identifier: the character after a shorter identifier
\* starts an nmchar, which none of the continuations "(" and "|" does.
IdentEnd(s, i) ==
  IF NmStartLen(s, i) = 0 THEN 0 ELSE NmCharsEnd(s, i + NmStartLen(s, i))

RECURSIVE NonAsciiEnd(_, _)
NonAsciiEnd(s, i) == IF At(s, i) \in i_nonascii \cup Beyond THEN NonAsciiEnd(s, i + 1) ELSE i

\* i_unicodeid, line 311: ([^\u0000-\u007f]+)
UnicodeIdEnd(s, i) == IF At(s, i) \in i_nonascii \cup Beyond THEN NonAsciiEnd(s, i) ELSE 0

\* i_element_name, line 313: ident or "*"
ElementNameEnd(s, i) ==
  IF IdentEnd(s, i) > 0 THEN IdentEnd(s, i)
  ELSE IF At(s, i) = "*" THEN i + 1
  ELSE 0

\* i_namespace_selector, line 315: ((?:ident)|\*|)\|(?!=); the position of
\* the "|" (the end of group 1), 0 for no match
NamespaceBar(s, i) ==
  LET p == IF IdentEnd(s, i) > 0 THEN IdentEnd(s, i)
           ELSE IF At(s, i) = "*" THEN i + 1
           ELSE i
  IN  IF At(s, p) = "|" /\ At(s, p + 1) # "=" THEN p ELSE 0

\* i_class, line 317: \.ident
ClassEnd(s, i) == IF At(s, i) = "." THEN IdentEnd(s, i + 1) ELSE 0

\* i_hash, line 319: #((?:nmchar)+)
HashEnd(s, i) ==
  IF At(s, i) = "#" /\ NmCharLen(s, i + 1) > 0 THEN NmCharsEnd(s, i + 1) ELSE 0

\* the lengths of the two forms of i_rgbcolor, line 321
RgbLong == 6

RgbShort == 3

\* i_rgbcolor, line 321: (#hex{6}|#hex{3})
RgbColorEnd(s, i) ==
  IF At(s, i) # "#" THEN 0
  ELSE IF HexRun(s, i + 1, RgbLong) = RgbLong THEN i + 1 + RgbLong
  ELSE IF HexRun(s, i + 1, RgbShort) = RgbShort THEN i + 1 + RgbShort
  ELSE 0

RECURSIVE DigitsEnd(_, _)
DigitsEnd(s, i) == IF At(s, i) \in Digits THEN DigitsEnd(s, i + 1) ELSE i

\* i_num without its second alternative: a number starts with a digit
NumEndLeadingDigit(s, i) ==
  LET j == IF At(s, i) \in { "-", "+" } THEN i + 1 ELSE i
  IN  IF At(s, j) \in Digits
        THEN LET k == DigitsEnd(s, j)
             IN  IF At(s, k) = "." /\ At(s, k + 1) \in Digits
                   THEN DigitsEnd(s, k + 1)
                   ELSE k
      ELSE 0

\* i_num, line 335: (([-+]?[0-9]+(?:\.[0-9]+)?)|([-+]?\.[0-9]+))
NumEnd(s, i) ==
  LET j == IF At(s, i) \in { "-", "+" } THEN i + 1 ELSE i
  IN  IF At(s, j) \in Digits
        THEN LET k == DigitsEnd(s, j)
             IN  IF At(s, k) = "." /\ At(s, k + 1) \in Digits
                   THEN DigitsEnd(s, k + 1)
                   ELSE k
      ELSE IF At(s, j) = "." /\ At(s, j + 1) \in Digits THEN DigitsEnd(s, j + 1)
      ELSE 0

\* i_unit, line 337: (%|ident)? ; it always matches, possibly nothing
UnitEnd(s, i) ==
  IF At(s, i) = "%" THEN i + 1
  ELSE IF IdentEnd(s, i) > 0 THEN IdentEnd(s, i)
  ELSE i

\* i_function, line 339: ident\(
FunctionEnd(s, i) ==
  IF IdentEnd(s, i) > 0 /\ At(s, IdentEnd(s, i)) = "(" THEN IdentEnd(s, i) + 1 ELSE 0

\* i_functionterm, line 341: [-+]?ident\( ; the start of group 1, the
\* identifier: after the sign when a function head follows the sign, and at
\* the sign itself otherwise (a "-" can start the identifier)
FunctionTermName(s, i) ==
  IF At(s, i) \in { "-", "+" } /\ FunctionEnd(s, i + 1) > 0 THEN i + 1 ELSE i

FunctionTermEnd(s, i) == FunctionEnd(s, FunctionTermName(s, i))

\* i_unicoderange1, line 343: (?:U\+hex{1,6}-hex{1,6}), re.I
UnicodeRangeEnd(s, i) ==
  IF ToLower(At(s, i)) = "u" /\ At(s, i + 1) = "+" /\ At(s, i + 2) \in i_hex
    THEN LET k == i + 2 + HexRun(s, i + 2, MaxEscapeHex)
         IN  IF At(s, k) = "-" /\ At(s, k + 1) \in i_hex
               THEN k + 1 + HexRun(s, k + 1, MaxEscapeHex)
               ELSE 0
    ELSE 0

RECURSIVE MatchWord(_, _, _, _)
\* a literal word of a pattern compiled with re.I, from its k-th character
MatchWord(s, i, w, k) ==
  IF k > Len(w) THEN i
  ELSE IF ToLower(At(s, i)) = w[k] THEN MatchWord(s, i + 1, w, k + 1)
  ELSE 0

\* i_important, line 352: !\s*(important); the start of group 1, 0 for none
ImportantWord(s, i) == IF At(s, i) = "!" THEN SkipWs(s, i + 1) ELSE 0

ImportantEnd(s, i) ==
  IF ImportantWord(s, i) = 0 THEN 0
  ELSE MatchWord(s, ImportantWord(s, i), << "i", "m", "p", "o", "r", "t", "a", "n", "t" >>, 1)

RECURSIVE CommentClose(_, _)
\* the position after the first "*/" at or after i, 0 when there is none
CommentClose(s, i) ==
  IF i >= Len(s) THEN 0
  ELSE IF s[i] = "*" /\ s[i + 1] = "/" THEN i + 2
  ELSE CommentClose(s, i + 1)

\* i_comment, line 350: /\*[^*]*\*+([^/*][^*]*\*+)*/ : from "/*" to the
\* first "*/" that follows it
CommentEnd(s, i) ==
  IF At(s, i) = "/" /\ At(s, i + 1) = "*" THEN CommentClose(s, i + 2) ELSE 0

RECURSIVE StripComments(_, _)
\* re_comment.sub('', src), line 484
StripComments(s, i) ==
  IF i > Len(s) THEN << >>
  ELSE IF CommentEnd(s, i) > 0 THEN StripComments(s, CommentEnd(s, i))
  ELSE << s[i] >> \o StripComments(s, i + 1)

(***************************************************************************)
(* Strings and URIs, lines 323-334.  The body of a string is a repetition  *)
(* of alternatives that overlap on the backslash, so the matcher tries the *)
(* alternatives in the order of the pattern and backtracks as re does.  A  *)
(* match is [e, c]: e the position after the whole match, c the position   *)
(* of the closing quote; e = 0 for no match.                               *)
(***************************************************************************)
NoMatch == [e |-> 0, c |-> 0]

\* the first alternative of i_string_content, line 325: [\t !#$%&(-~]
StringClass(c) ==
  /\ c # ""
  /\ c \notin i_nonascii \cup Beyond
  /\ c \notin { "\n", "\r", "\f", "\"", "'" }

\* the first alternative of the bare URI, line 331: [!#$%&*-~]
UriClass(c) ==
  /\ c # ""
  /\ c \notin i_nonascii
  /\ c \notin Control \cup { " ", "\"", "'", "(", ")" }

RECURSIVE UnicodeEscapeLens(_, _, _)
\* the lengths i_unicode (line 302) can match at a backslash followed by k
\* hex digits, in the order re tries them: most digits first, and for each
\* number of digits with the optional whitespace before without
UnicodeEscapeLens(s, i, k) ==
  IF k = 0 THEN << >>
  ELSE (IF At(s, i + 1 + k) \in Whitespace THEN << k + 2, k + 1 >> ELSE << k + 1 >>)
       \o UnicodeEscapeLens(s, i, k - 1)

\* the lengths i_escape (line 303) can match at position i, in order
EscapeLens(s, i) ==
  IF At(s, i) # "\\" THEN << >>
  ELSE UnicodeEscapeLens(s, i, HexRun(s, i + 1, MaxEscapeHex))
       \o (IF At(s, i + 1) # "" /\ At(s, i + 1) \notin Control THEN << 2 >> ELSE << >>)

\* i_escape_nl, line 324: a backslash and \n | \r\n | \r | \f
EscapeNlLens(s, i) ==
  IF At(s, i) # "\\" THEN << >>
  ELSE (IF At(s, i + 1) = "\n" THEN << 2 >> ELSE << >>)
       \o (IF At(s, i + 1) = "\r" /\ At(s, i + 2) = "\n" THEN << 3 >> ELSE << >>)
       \o (IF At(s, i + 1) = "\r" THEN << 2 >> ELSE << >>)
       \o (IF At(s, i + 1) = "\f" THEN << 2 >> ELSE << >>)

\* one step of (?:i_string_content|<other quote>)*, lines 325-327
StringStepLens(s, i, q) ==
  (IF StringClass(At(s, i)) THEN << 1 >> ELSE << >>)
  \o EscapeNlLens(s, i)
  \o (IF At(s, i) \in i_nonascii THEN << 1 >> ELSE << >>)
  \o EscapeLens(s, i)
  \o (IF At(s, i) \in { "\"", "'" } \ { q } THEN << 1 >> ELSE << >>)

\* one step of the bare URI (?:[!#$%&*-~]|nonascii|escape)+, line 331
UriStepLens(s, i) ==
  (IF UriClass(At(s, i)) THEN << 1 >> ELSE << >>)
  \o (IF At(s, i) \in i_nonascii THEN << 1 >> ELSE << >>)
  \o EscapeLens(s, i)

\* what must follow: nothing after a string of re_string, \s*\) in re_uri
TailEnd(s, i, tail) ==
  IF tail = "uri"
    THEN IF At(s, SkipWs(s, i)) = ")" THEN SkipWs(s, i) + 1 ELSE 0
    ELSE i

RECURSIVE StringBody(_, _, _, _)
RECURSIVE StringTry(_, _, _, _, _, _)
\* the body of a string opened with q, from position i, and its closing quote
StringBody(s, i, q, tail) ==
  LET r == StringTry(s, i, q, tail, StringStepLens(s, i, q), 1)
  IN  IF r.e > 0 THEN r
      ELSE IF At(s, i) = q /\ TailEnd(s, i + 1, tail) > 0
        THEN [e |-> TailEnd(s, i + 1, tail), c |-> i]
      ELSE NoMatch

StringTry(s, i, q, tail, lens, n) ==
  IF n > Len(lens) THEN NoMatch
  ELSE LET r == StringBody(s, i + lens[n], q, tail)
       IN  IF r.e > 0 THEN r ELSE StringTry(s, i, q, tail, lens, n + 1)

\* i_string, line 328: string1 | string2, at position i
StringMatch(s, i, tail) ==
  IF At(s, i) \in { "\"", "'" } THEN StringBody(s, i + 1, At(s, i), tail) ELSE NoMatch

RECURSIVE UriBody(_, _, _)
RECURSIVE UriTry(_, _, _, _, _)
\* the bare URI from position i after n steps, then \s*\)
UriBody(s, i, n) ==
  LET r == UriTry(s, i, n, UriStepLens(s, i), 1)
  IN  IF r > 0 THEN r
      ELSE IF n > 0 THEN TailEnd(s, i, "uri")
      ELSE 0

UriTry(s, i, n, lens, k) ==
  IF k > Len(lens) THEN 0
  ELSE LET r == UriBody(s, i + lens[k], n + 1)
       IN  IF r > 0 THEN r ELSE UriTry(s, i, n, lens, k + 1)

\* re_string.match(src), line 329: [e, g] with g = groups()[0], the content
\* of a double-quoted string, None when the single-quoted form matched
StringGroups(s) ==
  LET m == StringMatch(s, 1, "none")
  IN  IF m.e = 0 THEN [e |-> 0, g |-> None]
      ELSE [e |-> m.e, g |-> IF s[1] = "\"" THEN Slice(s, 2, m.c) ELSE None]

\* re_uri.match(src), lines 330-334: url\(\s*(?:string|(bare+))\s*\), with
\* g = groups()[0], the content of a double-quoted URI and None otherwise
UriGroups(s) ==
  LET p == MatchWord(s, 1, << "u", "r", "l", "(" >>, 1)
      b == SkipWs(s, p)
      m == StringMatch(s, b, "uri")
  IN  IF p = 0 THEN [e |-> 0, g |-> None]
      ELSE IF m.e > 0
        THEN [e |-> m.e, g |-> IF s[b] = "\"" THEN Slice(s, b + 1, m.c) ELSE None]
      ELSE [e |-> UriBody(s, b, 0), g |-> None]

(***************************************************************************)
(* Compiled patterns by name, and the utility methods, lines 1112-1143.    *)
(***************************************************************************)
\* rexpression.match(src): [e, g, n] with e the position after the match
\* (0: no match), g what group(1) holds (groups()[0] for re_string and
\* re_uri) and n the number of groups of the pattern
re_match(rexpression, s) ==
  CASE rexpression = "re_ident" ->
         [e |-> IdentEnd(s, 1), g |-> Take(s, IdentEnd(s, 1) - 1), n |-> 1]
    [] rexpression = "re_unicodeid" ->
         [e |-> UnicodeIdEnd(s, 1), g |-> Take(s, UnicodeIdEnd(s, 1) - 1), n |-> 1]
    [] rexpression = "re_element_name" ->
         [e |-> ElementNameEnd(s, 1), g |-> Take(s, ElementNameEnd(s, 1) - 1), n |-> 1]
    [] rexpression = "re_namespace_selector" ->
         [e |-> IF NamespaceBar(s, 1) > 0 THEN NamespaceBar(s, 1) + 1 ELSE 0,
          g |-> Take(s, NamespaceBar(s, 1) - 1), n |-> 1]
    [] rexpression = "re_class" ->
         [e |-> ClassEnd(s, 1), g |-> Slice(s, 2, ClassEnd(s, 1)), n |-> 1]
    [] rexpression = "re_hash" ->
         [e |-> HashEnd(s, 1), g |-> Slice(s, 2, HashEnd(s, 1)), n |-> 1]
    [] rexpression = "re_rgbcolor" ->
         [e |-> RgbColorEnd(s, 1), g |-> Take(s, RgbColorEnd(s, 1) - 1), n |-> 1]
    [] rexpression = "re_num" ->
         [e |-> NumEnd(s, 1), g |-> Take(s, NumEnd(s, 1) - 1), n |-> 3]
    [] rexpression = "re_unit" ->
         [e |-> UnitEnd(s, 1),
          g |-> IF UnitEnd(s, 1) = 1 THEN None ELSE Take(s, UnitEnd(s, 1) - 1), n |-> 1]
    [] rexpression = "re_functionterm" ->
         [e |-> FunctionTermEnd(s, 1),
          g |-> Slice(s, FunctionTermName(s, 1), FunctionTermEnd(s, 1) - 1), n |-> 1]
    [] rexpression = "re_unicoderange" ->
         [e |-> UnicodeRangeEnd(s, 1), g |-> None, n |-> 0]
    [] rexpression = "re_important" ->
         [e |-> ImportantEnd(s, 1),
          g |-> Slice(s, ImportantWord(s, 1), ImportantEnd(s, 1)), n |-> 1]
    [] rexpression = "re_string" ->
         [e |-> StringGroups(s).e, g |-> StringGroups(s).g, n |-> 2]
    [] rexpression = "re_uri" ->
         [e |-> UriGroups(s).e, g |-> UriGroups(s).g, n |-> 3]

\* _get_match_result(rexpression, src), lines 1138-1143, with group=1:
\* [st, val, src]; result.group(1) raises IndexError for a pattern without
\* groups
_get_match_result(rexpression, src) ==
  LET result == self("re_match", << rexpression, src >>)
  IN  IF result.e > 0
        THEN IF result.n < 1
               THEN [st |-> "IndexError", val |-> None, src |-> src]
               ELSE [st |-> "ok", val |-> result.g, src |-> Drop(src, result.e - 1)]
        ELSE [st |-> "ok", val |-> None, src |-> src]

\* _get_ident(src), lines 1112-1113
_get_ident(src) == self("_get_match_result", << "re_ident", src >>)

\* _get_string(src, rexpression), lines 1115-1130.  filter() returns an
\* iterator, which is true and cannot be indexed: strres[0] raises, the
\* handler of line 1124 takes result.groups()[0] instead
_get_string(src, rexpression) ==
  LET result == self("re_match", << rexpression, src >>)
  IN  IF result.e > 0
        THEN [val |-> result.g, src |-> Drop(src, result.e - 1)]
        ELSE [val |-> None, src |-> src]

\* _get_string_or_uri(src), lines 1132-1136
_get_string_or_uri(src) ==
  LET r == self("_get_string", << src, "re_uri" >>)
  IN  IF r.val = None THEN self("_get_string", << r.src, "re_string" >>) ELSE r

\* the words the engine compares the source with
kw_charset == << "c", "h", "a", "r", "s", "e", "t" >>

kw_import == << "i", "m", "p", "o", "r", "t" >>

kw_namespace == << "n", "a", "m", "e", "s", "p", "a", "c", "e" >>

kw_media == << "m", "e", "d", "i", "a" >>

kw_page == << "p", "a", "g", "e" >>

kw_font_face == << "f", "o", "n", "t", "-", "f", "a", "c", "e" >>

kw_frame == << "f", "r", "a", "m", "e" >>

kw_and == << "a", "n", "d" >>

kw_all == << "a", "l", "l" >>

kw_nothing == << "-", "n", "o", "t", "h", "i", "n", "g", "-" >>

\* is_at_rule_ident(src, ident), lines 39-46: re.match('^@' + ident + '\s*')
is_at_rule_ident(src, ident) == StartsWith(src, << "@" >> \o ident)

RECURSIVE AtNameEnd(_, _)
\* [a-z\-]+ of line 55
AtNameEnd(s, i) == IF At(s, i) \in Lower \cup { "-" } THEN AtNameEnd(s, i + 1) ELSE i

\* strip_at_rule_ident(src), lines 49-55: re.sub('^@[a-z\-]+\s*', '', src)
strip_at_rule_ident(src) ==
  IF At(src, 1) = "@" /\ AtNameEnd(src, 2) > 2
    THEN Drop(src, SkipWs(src, AtNameEnd(src, 2)) - 1)
    ELSE src

(***************************************************************************)
(* Results of productions, and the recording builder: every hook of the    *)
(* builder interface (lines 85-187) is recorded as a call [h, a] and       *)
(* returns a value that holds its arguments.                               *)
(***************************************************************************)
\* a production that returns (src, val) after the hook calls ev
Ok(src, val, ev) == [st |-> "ok", src |-> src, val |-> val, ev |-> ev]

\* a production left by an exception: for ParseError(msg, src, ctxsrc) of
\* lines 202-205 val holds the arguments
Raise(exc, msg, src, ctxsrc, ev) ==
  [st |-> exc, src |-> src, val |-> [msg |-> msg, src |-> src, ctxsrc |-> ctxsrc], ev |-> ev]

\* the exception of a nested call passing through a caller that had already
\* made the hook calls ev
Propagate(r, ev) == [r EXCEPT !.ev = ev \o @]

\* one call of a builder hook or of a method of a selector
Call(h, a) == [h |-> h, a |-> a]

\* NotImplemented, where a term is expected
NotImplementedTerm == [t |-> "NotImplemented"]

\* None, where a term is expected
NoneTerm == [t |-> "None"]

term_number(value, units) == [t |-> "number", v |-> value, u |-> units]

term_ident(value) == [t |-> "ident", v |-> value]

term_rgb(value) == [t |-> "rgb", v |-> value]

term_uri(value) == [t |-> "uri", v |-> value]

term_string(value) == [t |-> "string", v |-> value]

term_function(name, value) == [t |-> "function", name |-> name, v |-> value]

combine_terms(termA, combiner, termB) ==
  [t |-> "combined", a |-> termA, op |-> combiner, b |-> termB]

\* the builder keeps the source it is given and signals total failure
term_unknown(src) == [src |-> src, term |-> NotImplementedTerm]

resolve_namespace_prefix(nsPrefix, name) == [ns |-> nsPrefix, name |-> name]

selector(name) == [t |-> "selector", name |-> name, q |-> << >>]

\* the add_* methods of a selector (lines 66-82): k names the method
add_qualifier(sel, k, a) == [sel EXCEPT !.q = Append(@, [k |-> k, a |-> a])]

combine_selectors(selectorA, combiner, selectorB) ==
  [t |-> "combined", a |-> selectorA, c |-> combiner, b |-> selectorB]

property(name, value, important) ==
  [t |-> "property", name |-> name, value |-> value, important |-> important]

\* None, where a property or a selector is expected
NoneValue == [t |-> "None"]

ruleset(selectors, declarations) ==
  [t |-> "ruleset", selectors |-> selectors, declarations |-> declarations]

at_import(import_, mediums) == [t |-> "import", import_ |-> import_, mediums |-> mediums]

\* at_media returns the list of elements the rule contributes: one
at_media(mediums, elements) == << [t |-> "media", mediums |-> mediums, elements |-> elements] >>

at_page(page, pseudopage, declarations) ==
  [t |-> "page", page |-> page, pseudopage |-> pseudopage, declarations |-> declarations]

at_font_face(declarations) == [t |-> "font_face", declarations |-> declarations]

at_frame(box, declarations) == [t |-> "frame", box |-> box, declarations |-> declarations]

stylesheet(elements, imports) == [t |-> "stylesheet", elements |-> elements, imports |-> imports]

\* at_ident, lines 144-145: the builder declines, return src, NotImplemented
at_ident(atIdent, src) == [src |-> src, ni |-> TRUE]

\* a method declared with min .. max parameters after self, whose body
\* raises NotImplementedError('Subclass responsibility') or returns a value
Declared(min, max, raises) == [min |-> min, max |-> max, raises |-> raises]

\* class CSSSelectorAbstract, lines 58-82
CSSSelectorAbstract ==
  [add_hash_id |-> Declared(1, 1, TRUE), add_class |-> Declared(1, 1, TRUE),
   add_attribute |-> Declared(1, 1, TRUE), add_attribute_operation |-> Declared(3, 3, TRUE),
   add_pseudo |-> Declared(1, 1, TRUE), add_pseudo_function |-> Declared(2, 2, TRUE)]

\* class CSSBuilderAbstract, lines 85-187
CSSBuilderAbstract ==
  [set_charset |-> Declared(1, 1, TRUE), begin_stylesheet |-> Declared(0, 0, TRUE),
   stylesheet |-> Declared(1, 1, TRUE), end_stylesheet |-> Declared(0, 0, TRUE),
   begin_inline |-> Declared(0, 0, TRUE), inline |-> Declared(1, 1, TRUE),
   end_inline |-> Declared(0, 0, TRUE), ruleset |-> Declared(2, 2, TRUE),
   resolve_namespace_prefix |-> Declared(2, 2, TRUE), at_charset |-> Declared(1, 1, TRUE),
   at_import |-> Declared(3, 3, TRUE), at_namespace |-> Declared(2, 2, TRUE),
   at_media |-> Declared(2, 2, TRUE), at_page |-> Declared(3, 3, TRUE),
   at_font_face |-> Declared(1, 1, TRUE), at_ident |-> Declared(3, 3, FALSE),
   combine_selectors |-> Declared(3, 3, TRUE), selector |-> Declared(1, 1, TRUE),
   property |-> Declared(2, 3, TRUE), combine_terms |-> Declared(3, 3, TRUE),
   term_ident |-> Declared(1, 1, TRUE), term_number |-> Declared(1, 2, TRUE),
   term_rgb |-> Declared(1, 1, TRUE), term_uri |-> Declared(1, 1, TRUE),
   term_string |-> Declared(1, 1, TRUE), term_unicode_range |-> Declared(1, 1, TRUE),
   term_function |-> Declared(2, 2, TRUE), term_unknown |-> Declared(1, 1, TRUE)]

\* the number of arguments of a call: a call of at_import or of at_ident is
\* kept without the parser the engine passes with it (lines 574 and 756)
Passed(c) == Len(c.a) + (IF c.h \in { "at_import", "at_ident" } THEN 1 ELSE 0)

\* what a call does on an object that leaves the method to the abstract
\* class: the exception that leaves it, or "returns"
DefaultCall(c) ==
  LET class == IF c.h \in DOMAIN CSSSelectorAbstract THEN CSSSelectorAbstract
               ELSE CSSBuilderAbstract
  IN  IF c.h \notin DOMAIN class THEN "AttributeError"
      ELSE IF Passed(c) < class[c.h].min \/ Passed(c) > class[c.h].max THEN "TypeError"
      ELSE IF class[c.h].raises THEN "NotImplementedError"
      ELSE "returns"

\* the messages of these exceptions
DefaultMessage(exc) ==
  CASE exc = "NotImplementedError" -> "Subclass responsibility"
    [] exc = "AttributeError" -> "object has no attribute"
    [] exc = "TypeError" -> "positional arguments"

\* the calls ev up to the first one of a method that is left to the abstract
\* class and raises there, 0 for none
FirstDefaultRaise(ev, defaulted) ==
  LET raising == { i \in DOMAIN ev : ev[i].h \in defaulted /\ DefaultCall(ev[i]) # "returns" }
  IN  IF raising = { } THEN 0 ELSE CHOOSE i \in raising : \A j \in raising : i <= j

\* a production that has ended with r, run with a builder and selectors
\* that leave the methods of defaulted to the abstract classes: the first
\* call that raises there ends it, no handler of the engine catches it
Hooked(r, defaulted) ==
  IF FirstDefaultRaise(r.ev, defaulted) = 0 THEN r
  ELSE [st |-> DefaultCall(r.ev[FirstDefaultRaise(r.ev, defaulted)]),
        src |-> r.src,
        val |-> [msg |-> DefaultMessage(DefaultCall(r.ev[FirstDefaultRaise(r.ev, defaulted)])),
                 src |-> << >>, ctxsrc |-> << >>],
        ev |-> Take(r.ev, FirstDefaultRaise(r.ev, defaulted))]

\* the list of elements an at-rule handler returns, or NotImplemented
AtResults(items) == [ni |-> FALSE, items |-> items]

AtNotImplemented == [ni |-> TRUE, items |-> << >>]

(***************************************************************************)
(* Expressions and terms, lines 1022-1108.                                 *)
(***************************************************************************)

\* the for loop of lines 1031-1036 as it would be with no operator to look
\* for: ' ' whatever follows the term
ExpressionOperatorSpace(src) == << " " >>

\* expression_operators, line 292: the first of '/', '+', ',' the source
\* starts with, ' ' when it starts with none (the else of the for loop)
ExpressionOperator(src) ==
  IF At(src, 1) \in { "/", "+", "," } THEN << At(src, 1) >> ELSE << " " >>

\* the while loop of lines 1030-1041: [st, src, val, ev, operator]
ExpressionLoop(src, term, operator, ev) ==
  IF At(src, 1) \in { "", ";", "{", "}", "[", "]", ")" }
    THEN [st |-> "ok", src |-> src, val |-> term, ev |-> ev, operator |-> operator]
    ELSE LET op == ExpressionOperator(src)
             rest == IF op = << " " >> THEN src ELSE Drop(src, 1)
             t2 == self("_parse_expression_term", << LStrip(rest) >>)
         IN  IF t2.st # "ok"
               THEN [st |-> t2.st, src |-> t2.src, val |-> t2.val, ev |-> ev \o t2.ev,
                     operator |-> op]
             ELSE IF t2.val.t = "NotImplemented"
               THEN [st |-> "ok", src |-> t2.src, val |-> term, ev |-> ev \o t2.ev,
                     operator |-> op]
             ELSE self("ExpressionLoop", << t2.src, combine_terms(term, op, t2.val), op,
                                 ev \o t2.ev \o << Call("combine_terms", << term, op, t2.val >>) >> >>)

\* _parse_expression(src, returnList), lines 1022-1047
_parse_expression(src, returnList) ==
  LET t1 == self("_parse_expression_term", << src >>)
  IN  IF t1.st # "ok" THEN t1
      ELSE LET l == self("ExpressionLoop", << t1.src, t1.val, None, t1.ev >>)
           IN  IF l.st # "ok" THEN [st |-> l.st, src |-> l.src, val |-> l.val, ev |-> l.ev]
               ELSE IF l.operator = None /\ returnList
                 THEN Ok(l.src, combine_terms(l.val, None, NoneTerm),
                         l.ev \o << Call("combine_terms", << l.val, None, NoneTerm >>) >>)
               ELSE Ok(l.src, l.val, l.ev)

\* lines 1095-1108: the (namespaced) identifier, the non-ASCII run and the
\* unknown term
ExpressionTermIdent(src) ==
  LET ns == self("_get_match_result", << "re_namespace_selector", src >>)
      id == self("_get_ident", << ns.src >>)
      uid == self("_get_match_result", << "re_unicodeid", id.src >>)
  IN  IF id.val # None
        THEN IF ns.val # None
               THEN Ok(LStrip(id.src), term_ident(resolve_namespace_prefix(ns.val, id.val)),
                       << Call("resolve_namespace_prefix", << ns.val, id.val >>),
                          Call("term_ident", << resolve_namespace_prefix(ns.val, id.val) >>) >>)
               ELSE Ok(LStrip(id.src), term_ident(id.val), << Call("term_ident", << id.val >>) >>)
      ELSE IF uid.val # None
        THEN Ok(LStrip(uid.src), term_ident(uid.val), << Call("term_ident", << uid.val >>) >>)
      ELSE Ok(term_unknown(uid.src).src, term_unknown(uid.src).term,
              << Call("term_unknown", << uid.src >>) >>)

\* lines 1076-1093: the function call, the RGB color and the unicode range
ExpressionTermFunction(src, ctxsrc) ==
  LET fn == self("_get_match_result", << "re_functionterm", src >>)
      params == self("_parse_expression", << fn.src, TRUE >>)
      rgb == self("_get_match_result", << "re_rgbcolor", fn.src >>)
      range == self("_get_match_result", << "re_unicoderange", rgb.src >>)
  IN  IF fn.val # None
        THEN IF params.st # "ok" THEN params
             ELSE IF params.src = << >>
               THEN Raise("IndexError", "string index out of range", params.src, ctxsrc, params.ev)
             ELSE IF params.src[1] # ")"
               THEN Raise("CSSParseError", "Terminal function expression expected closing ')'",
                          params.src, ctxsrc, params.ev)
             ELSE Ok(LStrip(Drop(params.src, 1)), term_function(fn.val, params.val),
                     params.ev \o << Call("term_function", << fn.val, params.val >>) >>)
      ELSE IF rgb.val # None
        THEN Ok(LStrip(rgb.src), term_rgb(rgb.val), << Call("term_rgb", << rgb.val >>) >>)
      ELSE IF range.st # "ok"
        THEN Raise(range.st, "no such group", range.src, ctxsrc, << >>)
      ELSE self("ExpressionTermIdent", << range.src >>)

\* _parse_expression_term(src), lines 1049-1108
_parse_expression_term(src) ==
  LET num == self("_get_match_result", << "re_num", src >>)
      units == self("_get_match_result", << "re_unit", num.src >>)
      uri == self("_get_string", << num.src, "re_uri" >>)
      str == self("_get_string", << uri.src, "re_string" >>)
  IN  IF num.val # None
        THEN Ok(LStrip(units.src), term_number(num.val, units.val),
                << Call("term_number", << num.val, units.val >>) >>)
      ELSE IF uri.val # None
        THEN Ok(LStrip(uri.src), term_uri(uri.val), << Call("term_uri", << uri.val >>) >>)
      ELSE IF str.val # None
        THEN Ok(LStrip(str.src), term_string(str.val), << Call("term_string", << str.val >>) >>)
      ELSE self("ExpressionTermFunction", << str.src, src >>)

(***************************************************************************)
(* Selectors, lines 803-951.                                               *)
(***************************************************************************)
\* the delimiters that end a selector, lines 821 and 833
SelectorStop == { "", ",", ";", "{", "}", "[", "]", "(", ")" }

\* selector_qualifiers, line 290
selector_qualifiers == { "#", ".", "[", ":" }

\* attribute_operators, line 289, in the order the for loop tries them
attribute_operators ==
  << << "=" >>, << "~", "=" >>, << "|", "=" >>, << "&", "=" >>,
     << "^", "=" >>, << "!", "=" >>, << "<", ">" >> >>

\* lines 899-903: the first operator the source starts with, '' for none
AttributeOperator(src) ==
  IF \E i \in DOMAIN attribute_operators : StartsWith(src, attribute_operators[i])
    THEN attribute_operators[CHOOSE i \in DOMAIN attribute_operators :
           /\ StartsWith(src, attribute_operators[i])
           /\ \A j \in 1 .. i - 1 : ~StartsWith(src, attribute_operators[j])]
    ELSE << >>

\* lines 906-913: the value after an operator, an identifier or a string
AttributeValue(src) ==
  LET id == self("_get_ident", << src >>)
  IN  IF id.val # None THEN [val |-> id.val, src |-> id.src]
      ELSE self("_get_string", << id.src, "re_string" >>)

\* _parse_selector_attribute(src, selector), lines 878-924
_parse_selector_attribute(src, sel) ==
  LET ctxsrc == src
      ns == self("_get_match_result", << "re_namespace_selector", LStrip(Drop(src, 1)) >>)
      id == self("_get_ident", << ns.src >>)
      s1 == LStrip(id.src)
      attrName == IF ns.val # None THEN resolve_namespace_prefix(ns.val, id.val) ELSE id.val
      ev == IF ns.val # None
              THEN << Call("resolve_namespace_prefix", << ns.val, id.val >>) >>
              ELSE << >>
      op == AttributeOperator(s1)
      s2 == LStrip(Drop(s1, Len(op)))
      value == IF op # << >> THEN self("AttributeValue", << s2 >>) ELSE [val |-> None, src |-> s2]
  IN  IF ~StartsWith(src, << "[" >>)
        THEN Raise("CSSParseError", "Selector Attribute opening '[' not found", src, ctxsrc, << >>)
      ELSE IF id.val = None
        THEN Raise("CSSParseError", "Expected a selector attribute name", s1, ctxsrc, << >>)
      ELSE IF op # << >> /\ value.val = None
        THEN Raise("CSSParseError", "Expected a selector attribute value", value.src, ctxsrc, ev)
      ELSE IF ~StartsWith(value.src, << "]" >>)
        THEN Raise("CSSParseError", "Selector Attribute closing ']' not found", value.src, ctxsrc, ev)
      ELSE IF op # << >>
        THEN Ok(Drop(value.src, 1),
                add_qualifier(sel, "add_attribute_operation", << attrName, op, value.val >>),
                Append(ev, Call("add_attribute_operation", << attrName, op, value.val >>)))
      ELSE Ok(Drop(value.src, 1), add_qualifier(sel, "add_attribute", << attrName >>),
              Append(ev, Call("add_attribute", << attrName >>)))

\* _parse_selector_pseudo(src, selector), lines 926-951
_parse_selector_pseudo(src, sel) ==
  LET ctxsrc == src
      s1 == IF At(src, 2) = ":" THEN Drop(src, 2) ELSE Drop(src, 1)
      name == self("_get_ident", << s1 >>)
      term == self("_parse_expression", << LStrip(Drop(name.src, 1)), TRUE >>)
  IN  IF ~StartsWith(src, << ":" >>)
        THEN Raise("CSSParseError", "Selector Pseudo ':' not found", src, ctxsrc, << >>)
      ELSE IF name.val = None
        THEN Raise("CSSParseError", "Selector Pseudo identifier not found", name.src, ctxsrc, << >>)
      ELSE IF StartsWith(name.src, << "(" >>)
        THEN IF term.st # "ok" THEN term
             ELSE IF ~StartsWith(term.src, << ")" >>)
               THEN Raise("CSSParseError", "Selector Pseudo Function closing ')' not found",
                          term.src, ctxsrc, term.ev)
             ELSE Ok(Drop(term.src, 1),
                     add_qualifier(sel, "add_pseudo_function", << name.val, term.val >>),
                     Append(term.ev, Call("add_pseudo_function", << name.val, term.val >>)))
      ELSE Ok(name.src, add_qualifier(sel, "add_pseudo", << name.val >>),
              << Call("add_pseudo", << name.val >>) >>)

\* the while loop of lines 858-874
QualifierLoop(src, sel, ev) ==
  IF At(src, 1) \notin selector_qualifiers THEN Ok(src, sel, ev)
  ELSE LET hash == self("_get_match_result", << "re_hash", src >>)
           class == self("_get_match_result", << "re_class", hash.src >>)
           q == IF StartsWith(src, << "[" >>) THEN self("_parse_selector_attribute", << src, sel >>)
                ELSE self("_parse_selector_pseudo", << src, sel >>)
       IN  IF hash.val # None
             THEN self("QualifierLoop", << hash.src, add_qualifier(sel, "add_hash_id", << hash.val >>),
                                          Append(ev, Call("add_hash_id", << hash.val >>)) >>)
           ELSE IF class.val # None
             THEN self("QualifierLoop", << class.src, add_qualifier(sel, "add_class", << class.val >>),
                                          Append(ev, Call("add_class", << class.val >>)) >>)
           ELSE IF At(src, 1) \in { "[", ":" }
             THEN IF q.st # "ok" THEN Propagate(q, ev)
                  ELSE self("QualifierLoop", << q.src, q.val, ev \o q.ev >>)
           ELSE Ok(src, sel, ev)

\* _parse_simple_selector(src), lines 841-876
_parse_simple_selector(src) ==
  LET ctxsrc == LStrip(src)
      ns == self("_get_match_result", << "re_namespace_selector", src >>)
      el == self("_get_match_result", << "re_element_name", ns.src >>)
      name == IF el.val # None THEN el.val ELSE << "*" >>
      resolved == resolve_namespace_prefix(ns.val, name)
      loop == self("QualifierLoop", << el.src, selector(resolved),
                << Call("resolve_namespace_prefix", << ns.val, name >>),
                   Call("selector", << resolved >>) >> >>)
  IN  IF el.val = None /\ At(el.src, 1) \notin selector_qualifiers
        THEN Raise("CSSParseError", "Selector name or qualifier expected", el.src, ctxsrc, << >>)
      ELSE IF loop.st # "ok" THEN loop
      ELSE Ok(LStrip(loop.src), loop.val, loop.ev)

RECURSIVE SkipToDelimiter(_)
\* the while loop of lines 833-834
SkipToDelimiter(src) ==
  IF At(src, 1) \in SelectorStop THEN src ELSE SkipToDelimiter(Drop(src, 1))

\* selector_combiners, line 291: '+' or '>' when the source starts with one,
\* ' ' otherwise (the else of the for loop)
SelectorCombiner(src) ==
  IF At(src, 1) \in { "+", ">" } THEN << At(src, 1) >> ELSE << " " >>

\* the recovery of lines 831-835 applies when the remainder is not shorter
\* than the one measured at line 820
NoProgress(src, srcLen) == Len(src) >= srcLen

\* the while loop of lines 821-837.  The loop reads nothing but src and
\* srcLen: an iteration that is not a recovery and returns the source it
\* started with is followed by the same iteration for ever ("Diverge")
SelectorLoop(src, sel, srcLen, ev) ==
  IF At(src, 1) \in SelectorStop THEN Ok(LStrip(src), sel, ev)
  ELSE LET combiner == SelectorCombiner(src)
           rest == IF combiner = << " " >> THEN src ELSE LStrip(Drop(src, 1))
           b == self("_parse_simple_selector", << rest >>)
       IN  IF b.st # "ok" THEN Propagate(b, ev)
           ELSE IF NoProgress(b.src, srcLen)
             THEN Ok(LStrip(SkipToDelimiter(Drop(b.src, 1))), NoneValue, ev \o b.ev)
           ELSE IF b.src = src
             THEN Raise("Diverge", "_parse_selector", src, src, ev \o b.ev)
           ELSE self("SelectorLoop", << b.src, combine_selectors(sel, combiner, b.val), srcLen,
                             ev \o b.ev
                                \o << Call("combine_selectors", << sel, combiner, b.val >>) >> >>)

\* _parse_selector(src), lines 814-839
_parse_selector(src) ==
  LET a == self("_parse_simple_selector", << src >>)
  IN  IF a.st # "ok" THEN a ELSE self("SelectorLoop", << a.src, a.val, Len(a.src), a.ev >>)

\* _parse_selector_group as it would be with line 810 assigning the list
\* instead of appending to it: each selector replaces the ones before it
SelectorGroupKeepingLast(src, selectors, ev) ==
  IF At(src, 1) \in { "{", "}", "]", "(", ")", ";", "" } THEN Ok(src, selectors, ev)
  ELSE LET r == self("_parse_selector", << src >>)
       IN  IF r.st # "ok" THEN Propagate(r, ev)
           ELSE IF r.val.t = "None" THEN Ok(r.src, selectors, ev \o r.ev)
           ELSE self("_parse_selector_group",
                     << IF StartsWith(r.src, << "," >>) THEN LStrip(Drop(r.src, 1)) ELSE r.src,
                        << r.val >>, ev \o r.ev >>)

\* _parse_selector_group(src), lines 803-812, with the selectors found so far
_parse_selector_group(src, selectors, ev) ==
  IF At(src, 1) \in { "{", "}", "]", "(", ")", ";", "" } THEN Ok(src, selectors, ev)
  ELSE LET r == self("_parse_selector", << src >>)
       IN  IF r.st # "ok" THEN Propagate(r, ev)
           ELSE IF r.val.t = "None" THEN Ok(r.src, selectors, ev \o r.ev)
           ELSE self("_parse_selector_group", << 
                  IF StartsWith(r.src, << "," >>) THEN LStrip(Drop(r.src, 1)) ELSE r.src,
                  Append(selectors, r.val), ev \o r.ev >>)

(***************************************************************************)
(* Declarations, lines 955-1020.                                           *)
(***************************************************************************)
\* _parse_declaration_property(src, propertyName), lines 1011-1020
_parse_declaration_property(src, propertyName) ==
  LET expr == self("_parse_expression", << src, FALSE >>)
      important == self("_get_match_result", << "re_important", expr.src >>)
  IN  IF expr.st # "ok" THEN expr
      ELSE Ok(LStrip(important.src), property(propertyName, expr.val, important.val),
              expr.ev \o << Call("property", << propertyName, expr.val, important.val >>) >>)

\* _parse_declaration(src), lines 987-1009
_parse_declaration(src) ==
  LET name == self("_get_ident", << src >>)
      s1 == LStrip(name.src)
      s2 == IF At(s1, 1) \in { ":", "=" } THEN LStrip(Drop(s1, 1)) ELSE s1
  IN  IF name.val # None THEN self("_parse_declaration_property", << s2, name.val >>)
      ELSE Ok(name.src, NoneValue, << >>)

\* the while loop of lines 964-978 as it would be if the workaround of
\* lines 968-970 ended the loop instead of going on with the rewritten text
DeclarationLoopEndingAtStar(src, properties, ev) ==
  IF At(src, 1) \in { "", ",", "{", "}", "[", "]", "(", ")", "@" } THEN Ok(src, properties, ev)
  ELSE LET d == self("_parse_declaration", << src >>)
       IN  IF d.st # "ok" THEN Propagate(d, ev)
           ELSE IF StartsWith(d.src, << "*" >>)
             THEN Ok(kw_nothing \o Drop(d.src, 1), properties, ev \o d.ev)
           ELSE IF d.val.t = "None" THEN Ok(d.src, properties, ev \o d.ev)
           ELSE IF StartsWith(d.src, << ";" >>)
             THEN self("DeclarationLoop", << LStrip(Drop(d.src, 1)), Append(properties, d.val), ev \o d.ev >>)
           ELSE Ok(d.src, Append(properties, d.val), ev \o d.ev)

\* the while loop of lines 964-978
DeclarationLoop(src, properties, ev) ==
  IF At(src, 1) \in { "", ",", "{", "}", "[", "]", "(", ")", "@" } THEN Ok(src, properties, ev)
  ELSE LET d == self("_parse_declaration", << src >>)
       IN  IF d.st # "ok" THEN Propagate(d, ev)
           ELSE IF StartsWith(d.src, << "*" >>)
             THEN self("DeclarationLoop", << kw_nothing \o Drop(d.src, 1), properties, ev \o d.ev >>)
           ELSE IF d.val.t = "None" THEN Ok(d.src, properties, ev \o d.ev)
           ELSE IF StartsWith(d.src, << ";" >>)
             THEN self("DeclarationLoop", << LStrip(Drop(d.src, 1)), Append(properties, d.val), ev \o d.ev >>)
           ELSE Ok(d.src, Append(properties, d.val), ev \o d.ev)

\* _parse_declaration_group(src, braces), lines 955-985
_parse_declaration_group(src, braces) ==
  LET ctxsrc == src
      open == StartsWith(src, << "{" >>)
      loop == self("DeclarationLoop", << LStrip(IF open THEN Drop(src, 1) ELSE src), << >>, << >> >>)
  IN  IF ~open /\ braces
        THEN Raise("CSSParseError", "Declaration group opening '{' not found", src, ctxsrc, << >>)
      ELSE IF loop.st # "ok" THEN loop
      ELSE IF open \/ braces
        THEN IF ~StartsWith(loop.src, << "}" >>)
               THEN Raise("CSSParseError", "Declaration group closing '}' not found",
                          loop.src, ctxsrc, loop.ev)
               ELSE Ok(LStrip(Drop(loop.src, 1)), loop.val, loop.ev)
      ELSE Ok(LStrip(loop.src), loop.val, loop.ev)

\* _parse_ruleset(src), lines 790-799
_parse_ruleset(src) ==
  LET sels == self("_parse_selector_group", << src, << >>, << >> >>)
      props == self("_parse_declaration_group", << LStrip(sels.src), TRUE >>)
  IN  IF sels.st # "ok" THEN sels
      ELSE IF props.st # "ok" THEN Propagate(props, sels.ev)
      ELSE Ok(props.src, ruleset(sels.val, props.val),
              sels.ev \o props.ev \o << Call("ruleset", << sels.val, props.val >>) >>)

(***************************************************************************)
(* The leading directives of a stylesheet, lines 517-611.                  *)
(***************************************************************************)
\* _parse_s_cdo_cdc(src), lines 517-527
_parse_s_cdo_cdc(src) ==
  IF StartsWith(LStrip(src), << "<", "!", "-", "-" >>) THEN self("_parse_s_cdo_cdc", << Drop(LStrip(src), 4) >>)
  ELSE IF StartsWith(LStrip(src), << "-", "-", ">" >>) THEN self("_parse_s_cdo_cdc", << Drop(LStrip(src), 3) >>)
  ELSE LStrip(src)

\* _parse_at_charset(src), lines 531-543
_parse_at_charset(src) ==
  LET ctxsrc == src
      charset == self("_get_string", << strip_at_rule_ident(src), "re_string" >>)
      s1 == LStrip(charset.src)
  IN  IF ~is_at_rule_ident(src, kw_charset) THEN Ok(src, None, << >>)
      ELSE IF At(s1, 1) # ";"
        THEN Raise("CSSParseError", "@charset expected a terminating ';'", s1, ctxsrc, << >>)
      ELSE Ok(LStrip(Drop(s1, 1)), None, << Call("at_charset", << charset.val >>) >>)

\* the while loop of lines 558-564: [mediums, src]
MediumList(medium, src, mediums) ==
  IF medium = None THEN [mediums |-> mediums, src |-> src]
  ELSE IF At(src, 1) = ","
    THEN LET next == self("_get_ident", << LStrip(Drop(src, 1)) >>)
         IN  self("MediumList", << next.val, next.src, Append(mediums, medium) >>)
  ELSE [mediums |-> Append(mediums, medium), src |-> src]

\* lines 549-572 for one @import: [st, src, val, ev] with val the arguments
\* of at_import
ImportDirective(src) ==
  LET ctxsrc == src
      import_ == self("_get_string_or_uri", << strip_at_rule_ident(src) >>)
      first == self("_get_ident", << LStrip(import_.src) >>)
      list == self("MediumList", << first.val, first.src, << >> >>)
      mediums == IF list.mediums = << >> THEN << kw_all >> ELSE list.mediums
  IN  IF import_.val = None
        THEN Raise("CSSParseError", "Import expecting string or url", import_.src, ctxsrc, << >>)
      ELSE IF At(list.src, 1) # ";"
        THEN Raise("CSSParseError", "@import expected a terminating ';'", list.src, ctxsrc, << >>)
      ELSE Ok(LStrip(Drop(list.src, 1)), at_import(import_.val, mediums),
              << Call("at_import", << import_.val, mediums >>) >>)

\* _parse_at_imports(src), lines 545-579, with the results found so far
_parse_at_imports(src, result, ev) ==
  IF ~is_at_rule_ident(src, kw_import) THEN Ok(src, result, ev)
  ELSE LET d == self("ImportDirective", << src >>)
       IN  IF d.st # "ok" THEN Propagate(d, ev)
           ELSE self("_parse_at_imports", << self("_parse_s_cdo_cdc", << d.src >>), Append(result, d.val), ev \o d.ev >>)

\* lines 589-608 for one @namespace
NamespaceDirective(src) ==
  LET ctxsrc == src
      uri == self("_get_string_or_uri", << strip_at_rule_ident(src) >>)
      prefix == self("_get_ident", << uri.src >>)
      uri2 == self("_get_string_or_uri", << LStrip(prefix.src) >>)
      namespace == IF uri.val # None THEN uri ELSE uri2
      nsPrefix == IF uri.val # None THEN None ELSE prefix.val
      s1 == LStrip(namespace.src)
  IN  IF uri.val = None /\ prefix.val = None
        THEN Raise("CSSParseError", "@namespace expected an identifier or a URI",
                   prefix.src, ctxsrc, << >>)
      ELSE IF uri.val = None /\ uri2.val = None
        THEN Raise("CSSParseError", "@namespace expected a URI", uri2.src, ctxsrc, << >>)
      ELSE IF At(s1, 1) # ";"
        THEN Raise("CSSParseError", "@namespace expected a terminating ';'", s1, ctxsrc, << >>)
      ELSE Ok(LStrip(Drop(s1, 1)), None, << Call("at_namespace", << nsPrefix, namespace.val >>) >>)

\* the while loop of lines 588-610
NamespaceLoop(src, ev) ==
  IF ~is_at_rule_ident(src, kw_namespace) THEN Ok(src, None, ev)
  ELSE LET d == self("NamespaceDirective", << src >>)
       IN  IF d.st # "ok" THEN Propagate(d, ev)
           ELSE self("NamespaceLoop", << self("_parse_s_cdo_cdc", << d.src >>), ev \o d.ev >>)

\* _parse_at_namespace(src), lines 581-611
_parse_at_namespace(src) == self("NamespaceLoop", << self("_parse_s_cdo_cdc", << src >>), << >> >>)

\* lines 483-497 of _parse_stylesheet: comments, @charset, @import and
\* @namespace; val is the list of imports
StylesheetProlog(src) ==
  LET charset == self("_parse_at_charset", << StripComments(src, 1) >>)
      imports == self("_parse_at_imports", << self("_parse_s_cdo_cdc", << charset.src >>), << >>, << >> >>)
      namespace == self("_parse_at_namespace", << imports.src >>)
  IN  IF charset.st # "ok" THEN charset
      ELSE IF imports.st # "ok" THEN Propagate(imports, charset.ev)
      ELSE IF namespace.st # "ok" THEN Propagate(namespace, charset.ev \o imports.ev)
      ELSE Ok(namespace.src, imports.val, charset.ev \o imports.ev \o namespace.ev)

(***************************************************************************)
(* At-rules and the stylesheet, lines 476-515 and 613-786.                 *)
(***************************************************************************)

\* the number of characters the handlers cut off as the keyword:
\* len('@media '), len('@page '), len('@frame '), len('@font-face ')
LenAtMedia == 7

LenAtPage == 6

LenAtFrame == 7

LenAtFontFace == 11

\* the number of characters of the first line of src: where '.' of the
\* pattern of line 648 stops
RECURSIVE FirstLineLen(_, _)
FirstLineLen(s, i) == IF i > Len(s) \/ s[i] = "\n" THEN i - 1 ELSE FirstLineLen(s, i + 1)

\* lines 646-651: re.match('.*({.*)', src) and src[match.end()-1:]; the
\* pattern matches when the first line holds a '{', and ends with the line
SkipAnd(src) ==
  LET n == FirstLineLen(src, 1)
      brace == FindChar(Take(src, n), "{", 1)
  IN  IF brace = 0 THEN [st |-> "AttributeError", src |-> src]
      ELSE [st |-> "ok", src |-> Drop(src, n - 1)]

\* the while loop of lines 641-656: [st, src, val, ev] with val the mediums
MediaMediums(src, mediums, ctxsrc) ==
  IF src = << >> \/ src[1] = "{" THEN Ok(src, mediums, << >>)
  ELSE LET medium == self("_get_ident", << src >>)
       IN  IF medium.val = None
             THEN Raise("CSSParseError", "@media rule expected media identifier",
                        medium.src, ctxsrc, << >>)
           ELSE IF medium.val = kw_and
             THEN IF SkipAnd(medium.src).st # "ok"
                    THEN Raise("AttributeError", "'NoneType' object has no attribute 'end'",
                               medium.src, ctxsrc, << >>)
                    ELSE Ok(SkipAnd(medium.src).src, mediums, << >>)
           ELSE IF medium.src = << >>
             THEN Raise("IndexError", "string index out of range", medium.src, ctxsrc, << >>)
           ELSE IF medium.src[1] = ","
             THEN self("MediaMediums", << LStrip(Drop(medium.src, 1)), Append(mediums, medium.val), ctxsrc >>)
           ELSE self("MediaMediums", << LStrip(medium.src), Append(mediums, medium.val), ctxsrc >>)

\* the while loop of lines 669-679; extending a list by NotImplemented
\* (line 674) raises TypeError
MediaBody(src, elements, ev) ==
  IF src = << >> \/ src[1] = "}" THEN Ok(src, elements, ev)
  ELSE IF src[1] = "@"
    THEN LET r == self("_parse_at_keyword", << src >>)
         IN  IF r.st # "ok" THEN Propagate(r, ev)
             ELSE IF r.val.ni
               THEN Raise("TypeError", "'NotImplementedType' object is not iterable",
                          r.src, src, ev \o r.ev)
             ELSE self("MediaBody", << LStrip(r.src), elements \o r.val.items, ev \o r.ev >>)
  ELSE LET r == self("_parse_ruleset", << src >>)
       IN  IF r.st # "ok" THEN Propagate(r, ev)
           ELSE self("MediaBody", << LStrip(r.src), Append(elements, r.val), ev \o r.ev >>)

\* _parse_at_media(src), lines 633-687
_parse_at_media(src) ==
  LET ctxsrc == src
      mediums == self("MediaMediums", << LStrip(Drop(src, LenAtMedia)), << >>, ctxsrc >>)
      body == self("MediaBody", << LStrip(Drop(mediums.src, 1)), << >>, << >> >>)
  IN  IF mediums.st # "ok" THEN mediums
      ELSE IF ~StartsWith(mediums.src, << "{" >>)
        THEN Raise("CSSParseError", "Ruleset opening '{' not found", mediums.src, ctxsrc, << >>)
      ELSE IF body.st # "ok" THEN body
      ELSE IF ~StartsWith(body.src, << "}" >>)
        THEN Raise("CSSParseError", "Ruleset closing '}' not found", body.src, ctxsrc, body.ev)
      ELSE Ok(LStrip(Drop(body.src, 1)), AtResults(at_media(mediums.val, body.val)),
              body.ev \o << Call("at_media", << mediums.val, body.val >>) >>)

\* the while loop of lines 717-726.  The loop reads nothing but src: an
\* iteration that returns the source it started with is followed by the
\* same iteration for ever ("Diverge")
PageBody(src, elements, properties, ev) ==
  IF src = << >> \/ src[1] = "}" THEN Ok(src, properties, ev)
  ELSE IF src[1] = "@"
    THEN LET r == self("_parse_at_keyword", << src >>)
         IN  IF r.st # "ok" THEN Propagate(r, ev)
             ELSE IF r.val.ni
               THEN Raise("TypeError", "'NotImplementedType' object is not iterable",
                          r.src, src, ev \o r.ev)
             ELSE self("PageBody", << LStrip(r.src), elements \o r.val.items, properties, ev \o r.ev >>)
  ELSE LET r == self("_parse_declaration_group", << LStrip(src), FALSE >>)
       IN  IF r.st # "ok" THEN Propagate(r, ev)
           ELSE IF LStrip(r.src) = src
             THEN Raise("Diverge", "_parse_at_page", src, src, ev \o r.ev)
           ELSE self("PageBody", << LStrip(r.src), elements, properties \o r.val, ev \o r.ev >>)

\* _parse_at_page(src), lines 689-730; None + '_' and '_' + None raise
\* TypeError at line 700
_parse_at_page(src) ==
  LET ctxsrc == src
      page == self("_get_ident", << LStrip(Drop(src, LenAtPage)) >>)
      pseudopage == IF At(page.src, 1) = ":"
                      THEN self("_get_ident", << Drop(page.src, 1) >>)
                      ELSE [val |-> None, src |-> page.src]
      name == IF At(page.src, 1) = ":" THEN page.val \o << "_" >> \o pseudopage.val ELSE page.val
      s1 == LStrip(pseudopage.src)
      body == self("PageBody", << LStrip(Drop(s1, 1)), << >>, << >>, << >> >>)
  IN  IF At(page.src, 1) = ":" /\ (page.val = None \/ pseudopage.val = None)
        THEN Raise("TypeError", "unsupported operand type(s) for +", page.src, ctxsrc, << >>)
      ELSE IF ~StartsWith(s1, << "{" >>)
        THEN Raise("CSSParseError", "Ruleset opening '{' not found", s1, ctxsrc, << >>)
      ELSE IF body.st # "ok" THEN body
      ELSE Ok(LStrip(Drop(body.src, 1)),
              AtResults(<< at_page(name, pseudopage.val, body.val) >>),
              body.ev \o << Call("at_page", << name, pseudopage.val, body.val >>) >>)

\* _parse_at_frame(src), lines 732-741
_parse_at_frame(src) ==
  LET box == self("_get_ident", << LStrip(Drop(src, LenAtFrame)) >>)
      properties == self("_parse_declaration_group", << LStrip(box.src), TRUE >>)
  IN  IF properties.st # "ok" THEN properties
      ELSE Ok(LStrip(properties.src), AtResults(<< at_frame(box.val, properties.val) >>),
              properties.ev \o << Call("at_frame", << box.val, properties.val >>) >>)

\* _parse_at_font_face(src), lines 743-748
_parse_at_font_face(src) ==
  LET properties == self("_parse_declaration_group", << LStrip(Drop(src, LenAtFontFace)), TRUE >>)
  IN  IF properties.st # "ok" THEN properties
      ELSE Ok(properties.src, AtResults(<< at_font_face(properties.val) >>),
              properties.ev \o << Call("at_font_face", << properties.val >>) >>)

\* lines 762-784 of _parse_at_ident, after the builder has declined.  With
\* a ';' and no '{' before it, line 769 compares an int with None, which
\* raises TypeError; with both, the '{' comes first and the comparison is
\* false.  The block is parsed as a declaration group and, when that raises
\* ParseError, as a stylesheet
SkipAtRule(src, ctxsrc) ==
  LET semiIdx == FindChar(src, ";", 1)
      blockIdx == FindChar(IF semiIdx = 0 THEN src ELSE Take(src, semiIdx - 1), "{", 1)
      block == Drop(src, blockIdx - 1)
      declarations == self("_parse_declaration_group", << block, TRUE >>)
      nested == self("_parse_stylesheet", << block >>)
  IN  IF semiIdx # 0 /\ blockIdx = 0
        THEN Raise("TypeError", "'<' not supported between instances of 'int' and 'NoneType'",
                   src, ctxsrc, << >>)
      ELSE IF blockIdx = 0 THEN Ok(<< >>, None, << >>)
      ELSE IF declarations.st # "CSSParseError" THEN declarations
      ELSE Propagate(nested, declarations.ev)

\* _parse_at_ident(src), lines 750-786
_parse_at_ident(src) ==
  LET ctxsrc == src
      atIdent == self("_get_ident", << Drop(src, 1) >>)
      hook == at_ident(atIdent.val, atIdent.src)
      ev == << Call("at_ident", << atIdent.val, atIdent.src >>) >>
      skipped == self("SkipAtRule", << hook.src, ctxsrc >>)
  IN  IF atIdent.val = None
        THEN Raise("CSSParseError", "At-rule expected an identifier for the rule",
                   atIdent.src, ctxsrc, << >>)
      ELSE IF skipped.st # "ok" THEN Propagate(skipped, ev)
      ELSE Ok(LStrip(skipped.src), AtNotImplemented, ev \o skipped.ev)

\* _parse_at_keyword(src), lines 613-631
_parse_at_keyword(src) ==
  IF is_at_rule_ident(src, kw_media) THEN self("_parse_at_media", << src >>)
  ELSE IF is_at_rule_ident(src, kw_page) THEN self("_parse_at_page", << src >>)
  ELSE IF is_at_rule_ident(src, kw_font_face) THEN self("_parse_at_font_face", << src >>)
  ELSE IF is_at_rule_ident(src, kw_import)
    THEN LET r == self("_parse_at_imports", << src, << >>, << >> >>)
         IN  IF r.st # "ok" THEN r ELSE Ok(r.src, AtResults(r.val), r.ev)
  ELSE IF is_at_rule_ident(src, kw_frame) THEN self("_parse_at_frame", << src >>)
  ELSE IF StartsWith(src, << "@" >>) THEN self("_parse_at_ident", << src >>)
  ELSE Raise("CSSParseError", "Unknown state in atKeyword", src, src, << >>)

\* StylesheetElement as it would be with line 504 testing only for None:
\* extending the list by NotImplemented raises TypeError
StylesheetElementExtending(src) ==
  IF StartsWith(src, << "@" >>)
    THEN LET r == self("_parse_at_keyword", << src >>)
         IN  IF r.st # "ok" THEN r
             ELSE IF r.val.ni
               THEN Raise("TypeError", "'NotImplementedType' object is not iterable",
                          r.src, src, r.ev)
             ELSE Ok(self("_parse_s_cdo_cdc", << r.src >>), r.val.items, r.ev)
    ELSE LET r == self("_parse_ruleset", << src >>)
         IN  IF r.st # "ok" THEN r
             ELSE Ok(self("_parse_s_cdo_cdc", << r.src >>), << r.val >>, r.ev)

\* one iteration of the while loop of lines 500-512: val is the list of
\* elements it adds (none for NotImplemented, lines 504-505)
StylesheetElement(src) ==
  IF StartsWith(src, << "@" >>)
    THEN LET r == self("_parse_at_keyword", << src >>)
         IN  IF r.st # "ok" THEN r
             ELSE Ok(self("_parse_s_cdo_cdc", << r.src >>), IF r.val.ni THEN << >> ELSE r.val.items, r.ev)
    ELSE LET r == self("_parse_ruleset", << src >>)
         IN  IF r.st # "ok" THEN r
             ELSE Ok(self("_parse_s_cdo_cdc", << r.src >>), << r.val >>, r.ev)

\* the while loop of lines 500-512
StylesheetLoop(src, elements, ev) ==
  IF src = << >> THEN Ok(src, elements, ev)
  ELSE LET r == self("StylesheetElement", << src >>)
       IN  IF r.st # "ok" THEN Propagate(r, ev)
           ELSE self("StylesheetLoop", << r.src, elements \o r.val, ev \o r.ev >>)

\* _parse_stylesheet(src), lines 476-515
_parse_stylesheet(src) ==
  LET prolog == self("StylesheetProlog", << src >>)
      loop == self("StylesheetLoop", << prolog.src, << >>, prolog.ev >>)
  IN  IF prolog.st # "ok" THEN prolog
      ELSE IF loop.st # "ok" THEN loop
      ELSE Ok(loop.src, stylesheet(loop.val, prolog.val),
              loop.ev \o << Call("stylesheet", << loop.val, prolog.val >>) >>)

(***************************************************************************)
(* The parser object: self.<method>(<args>), for the methods of lines      *)
(* 476-1143.                                                               *)
(***************************************************************************)
self(method, args) ==
  CASE method = "_get_match_result" -> _get_match_result(args[1], args[2])
    [] method = "_get_ident" -> _get_ident(args[1])
    [] method = "_get_string" -> _get_string(args[1], args[2])
    [] method = "_get_string_or_uri" -> _get_string_or_uri(args[1])
    [] method = "_parse_stylesheet" -> _parse_stylesheet(args[1])
    [] method = "_parse_s_cdo_cdc" -> _parse_s_cdo_cdc(args[1])
    [] method = "_parse_at_charset" -> _parse_at_charset(args[1])
    [] method = "_parse_at_imports" -> _parse_at_imports(args[1], args[2], args[3])
    [] method = "_parse_at_namespace" -> _parse_at_namespace(args[1])
    [] method = "_parse_at_keyword" -> _parse_at_keyword(args[1])
    [] method = "_parse_at_media" -> _parse_at_media(args[1])
    [] method = "_parse_at_page" -> _parse_at_page(args[1])
    [] method = "_parse_at_frame" -> _parse_at_frame(args[1])
    [] method = "_parse_at_font_face" -> _parse_at_font_face(args[1])
    [] method = "_parse_at_ident" -> _parse_at_ident(args[1])
    [] method = "_parse_ruleset" -> _parse_ruleset(args[1])
    [] method = "_parse_selector_group" -> _parse_selector_group(args[1], args[2], args[3])
    [] method = "_parse_selector" -> _parse_selector(args[1])
    [] method = "_parse_simple_selector" -> _parse_simple_selector(args[1])
    [] method = "_parse_selector_attribute" -> _parse_selector_attribute(args[1], args[2])
    [] method = "_parse_selector_pseudo" -> _parse_selector_pseudo(args[1], args[2])
    [] method = "_parse_declaration_group" -> _parse_declaration_group(args[1], args[2])
    [] method = "_parse_declaration" -> _parse_declaration(args[1])
    [] method = "_parse_declaration_property" -> _parse_declaration_property(args[1], args[2])
    [] method = "_parse_expression" -> _parse_expression(args[1], args[2])
    [] method = "_parse_expression_term" -> _parse_expression_term(args[1])
    [] method = "ExpressionLoop" -> ExpressionLoop(args[1], args[2], args[3], args[4])
    [] method = "ExpressionTermIdent" -> ExpressionTermIdent(args[1])
    [] method = "ExpressionTermFunction" -> ExpressionTermFunction(args[1], args[2])
    [] method = "AttributeValue" -> AttributeValue(args[1])
    [] method = "QualifierLoop" -> QualifierLoop(args[1], args[2], args[3])
    [] method = "SelectorLoop" -> SelectorLoop(args[1], args[2], args[3], args[4])
    [] method = "DeclarationLoop" -> DeclarationLoop(args[1], args[2], args[3])
    [] method = "MediumList" -> MediumList(args[1], args[2], args[3])
    [] method = "ImportDirective" -> ImportDirective(args[1])
    [] method = "NamespaceDirective" -> NamespaceDirective(args[1])
    [] method = "NamespaceLoop" -> NamespaceLoop(args[1], args[2])
    [] method = "StylesheetProlog" -> StylesheetProlog(args[1])
    [] method = "MediaMediums" -> MediaMediums(args[1], args[2], args[3])
    [] method = "MediaBody" -> MediaBody(args[1], args[2], args[3])
    [] method = "PageBody" -> PageBody(args[1], args[2], args[3], args[4])
    [] method = "SkipAtRule" -> SkipAtRule(args[1], args[2])
    [] method = "StylesheetElement" -> StylesheetElement(args[1])
    [] method = "StylesheetLoop" -> StylesheetLoop(args[1], args[2], args[3])
    [] method = "re_match" -> re_match(args[1], args[2])

(***************************************************************************)
(* CSSParser.parse(src), lines 390-415, run on one source text with a      *)
(* builder whose hooks record their calls.  The while loop of              *)
(* _parse_stylesheet (lines 500-512) is taken one iteration at a time.     *)
(***************************************************************************)
VARIABLES
  input,                \* how the source text was composed
  text,                 \* the argument of parse(src)
  pc,                   \* "ready", "stylesheet", "returned", "raised", "diverged"
  src,                  \* the remaining source inside _parse_stylesheet
  stylesheet_elements,  \* line 497
  stylesheet_imports,   \* line 492
  calls,                \* the calls of builder hooks and selector methods so far
  err,                  \* the exception that left parse()
  result,               \* the value parse() returned
  rootPath              \* PisaCSSParser.rootPath (context.py, line 388)

vars ==
  << input, text, pc, src, stylesheet_elements, stylesheet_imports, calls, err, result, rootPath >>

\* cleanup_css of xhtml2pdf.w3c.cssSpecial (line 407): the preprocessing
\* leaves the text as it is
cleanup_css(s) == s

\* s.find(sub): the least index, counted from 0, at which sub occurs in s,
\* and -1 when it occurs nowhere
find(s, sub) ==
  IF \E i \in 0 .. Len(s) - Len(sub) : StartsWith(Drop(s, i), sub)
  THEN CHOOSE i \in 0 .. Len(s) - Len(sub) :
         /\ StartsWith(Drop(s, i), sub)
         /\ \A j \in 0 .. i - 1 : ~StartsWith(Drop(s, j), sub)
  ELSE -1

\* an object with none of the index attributes set on the instance: reading
\* one gives the None of the class (lines 198-200)
NoIndices == [n \in { } |-> 0]

\* self.<name> = v
setattr(indices, name, v) ==
  [n \in DOMAIN indices \cup { name } |-> IF n = name THEN v ELSE indices[n]]

\* del self.<name>
delattr(indices, name) == [n \in DOMAIN indices \ { name } |-> indices[n]]

\* self.<name> = s.find(sub), and del self.<name> when that is negative
\* (lines 208-210, 224-229)
Located(indices, name, s, sub) ==
  IF find(s, sub) < 0 THEN delattr(setattr(indices, name, find(s, sub)), name)
  ELSE setattr(indices, name, find(s, sub))

\* an exception of class type with the attributes of CSSParseError (lines
\* 194-200); attached counts the setFullCSSSource calls made on it
Exception(type, msg, s, ctxsrc) ==
  [type |-> type, msg |-> msg, src |-> s, ctxsrc |-> ctxsrc, fullsrc |-> None,
   inline |-> FALSE, indices |-> NoIndices, attached |-> 0]

NoError == Exception("none", "", << >>, << >>)

\* CSSParseError.__init__(msg, src, ctxsrc), lines 202-210: ctxsrc or src
CSSParseError(msg, s, ctxsrc) ==
  [Exception("CSSParseError", msg, s, IF ctxsrc \in { None, << >> } THEN s ELSE ctxsrc)
     EXCEPT !.indices = IF (IF ctxsrc \in { None, << >> } THEN s ELSE ctxsrc) # << >>
                        THEN Located(@, "srcCtxIdx", IF ctxsrc \in { None, << >> } THEN s ELSE ctxsrc, s)
                        ELSE @]

\* CSSParseError.setFullCSSSource(fullsrc, inline), lines 219-229
setFullCSSSource(e, fullsrc, inline) ==
  [e EXCEPT !.fullsrc = fullsrc,
            !.inline = IF inline THEN inline ELSE @,
            !.indices = IF fullsrc # << >>
                        THEN Located(Located(@, "srcFullIdx", fullsrc, e.src),
                                     "ctxsrcFullIdx", fullsrc, e.ctxsrc)
                        ELSE @,
            !.attached = @ + 1]

\* the exception r leaving parse(): setFullCSSSource for a ParseError
\* (lines 410-412), be it one raised by a production of this parse or one
\* that a hook has let through, which has been through these lines before
Escaped(r, s) ==
  IF "attached" \in DOMAIN r.val
  THEN IF r.st = "CSSParseError" THEN setFullCSSSource(r.val, s, FALSE) ELSE r.val
  ELSE IF r.st = "CSSParseError"
       THEN setFullCSSSource(CSSParseError(r.val.msg, r.val.src, r.val.ctxsrc), s, FALSE)
       ELSE Exception(r.st, r.val.msg, r.val.src, r.val.ctxsrc)

\* what parse() has done when _parse_stylesheet has ended with r: the
\* hook calls from begin_stylesheet to end_stylesheet (lines 401, 413-414)
Finished(r) ==
  [st |-> r.st, val |-> r.val,
   ev |-> << Call("begin_stylesheet", << >>) >> \o r.ev
            \o (IF r.st = "Diverge" THEN << >> ELSE << Call("end_stylesheet", << >>) >>)]

\* parse(src), lines 390-415, from the call to the return or the raise
parse(s) == Finished(self("_parse_stylesheet", << cleanup_css(s) >>))

\* PisaCSSParser.parseExternal(cssResourceName) of context.py, lines
\* 386-399, for a resource that is found and holds the text data: the
\* parser parses it with the builder it has
parseExternal(data) == parse(data)

\* the first call of the hook h in ev, 0 for none
FirstCall(ev, h) ==
  IF \E i \in DOMAIN ev : ev[i].h = h
  THEN CHOOSE i \in DOMAIN ev : ev[i].h = h /\ \A j \in 1 .. i - 1 : ev[j].h # h
  ELSE 0

\* a production that has ended with r, run with a builder whose at_import
\* hook has the parser resolve the import (parseExternal): the calls of the
\* nested parse follow the call of the hook, and what the nested parse
\* raises leaves the hook and ends the production
Imported(r, external, data) ==
  IF ~external \/ FirstCall(r.ev, "at_import") = 0 THEN r
  ELSE IF parseExternal(data).st = "ok"
       THEN [r EXCEPT !.ev = Take(@, FirstCall(@, "at_import")) \o parseExternal(data).ev
                               \o Drop(@, FirstCall(@, "at_import"))]
       ELSE [st |-> parseExternal(data).st,
             src |-> r.src,
             val |-> IF parseExternal(data).st = "Diverge" THEN parseExternal(data).val
                     ELSE Escaped(parseExternal(data), cleanup_css(data)),
             ev |-> Take(r.ev, FirstCall(r.ev, "at_import")) \o parseExternal(data).ev]

\* source texts cut off at every length
TruncatedBases ==
  << << "a", "{", "b", ":", "f", "(", "1", ")", "}" >>,
     << "@", "m", "e", "d", "i", "a", " ", "p", "r", "i", "n", "t", "{", "a", "{", "b", ":", "c", "}", "}" >>,
     << "@", "m", "e", "d", "i", "a", " ", "a", " ", "a", "n", "d", " ", "(", "x", ")", "{", "a", "{", "b", ":", "c", "}", "}" >>,
     << "a", " ", "b", " ", ".", "1", " ", "{", " ", "}" >>,
     << "@", "p", "a", "g", "e", " ", "{", " ", ",", " ", "}" >> >>

TruncatedInputs ==
  UNION { { [kind |-> "truncated", base |-> i, cut |-> n] : n \in 0 .. Len(TruncatedBases[i]) } :
            i \in DOMAIN TruncatedBases }

\* the longest lists of selectors, of declarations and of mediums
MaxSelectors == 2

MaxDeclarations == 2

MaxMediums == 2

\* the elements of a sequence
Range(s) == { s[i] : i \in DOMAIN s }

\* the sequences over 1 .. n of the lengths lo .. hi
SeqsOf(n, lo, hi) == UNION { [1 .. k -> 1 .. n] : k \in lo .. hi }

RECURSIVE Join(_, _)
\* sep.join(parts)
Join(parts, sep) ==
  IF parts = << >> THEN << >>
  ELSE IF Len(parts) = 1 THEN parts[1]
  ELSE parts[1] \o sep \o Join(Tail(parts), sep)

RECURSIVE Flatten(_)
Flatten(parts) == IF parts = << >> THEN << >> ELSE parts[1] \o Flatten(Tail(parts))

\* an element name as the selector hooks get it
ElementSelector(name) == selector(resolve_namespace_prefix(None, name))

\* the hook calls a simple selector for an element name makes (lines 852-856)
ElementCalls(name) ==
  << Call("resolve_namespace_prefix", << None, name >>),
     Call("selector", << resolve_namespace_prefix(None, name) >>) >>

\* selectors as they are written, with the hook calls and the selector a
\* builder is to get for them: 'a', 'b.c', 'd > e' and the malformed '.1'
SelectorPool ==
  << [src |-> << "a" >>, calls |-> ElementCalls(<< "a" >>), value |-> ElementSelector(<< "a" >>), wellFormed |-> TRUE],
     [src |-> << "b", ".", "c" >>,
      calls |-> Append(ElementCalls(<< "b" >>), Call("add_class", << << "c" >> >>)),
      value |-> add_qualifier(ElementSelector(<< "b" >>), "add_class", << << "c" >> >>), wellFormed |-> TRUE],
     [src |-> << "d", " ", ">", " ", "e" >>,
      calls |-> ElementCalls(<< "d" >>) \o ElementCalls(<< "e" >>)
                 \o << Call("combine_selectors", << ElementSelector(<< "d" >>), << ">" >>, ElementSelector(<< "e" >>) >>) >>,
      value |-> combine_selectors(ElementSelector(<< "d" >>), << ">" >>, ElementSelector(<< "e" >>)),
      wellFormed |-> TRUE],
     [src |-> << ".", "1" >>, calls |-> << >>, value |-> NoneValue, wellFormed |-> FALSE] >>

\* the hook calls of a declaration, the property hook last
DeclarationCalls(name, termCalls, term) ==
  termCalls \o << Call("property", << name, term, None >>) >>

\* declarations as they are written (name and value), with the hook calls
\* and the property a builder is to get: 'color: red', 'margin: 1px' and
\* 'font: b c'
DeclarationPool ==
  << [name |-> << "c", "o", "l", "o", "r" >>, expr |-> << "r", "e", "d" >>,
      calls |-> DeclarationCalls(<< "c", "o", "l", "o", "r" >>, << Call("term_ident", << << "r", "e", "d" >> >>) >>, term_ident(<< "r", "e", "d" >>)),
      value |-> property(<< "c", "o", "l", "o", "r" >>, term_ident(<< "r", "e", "d" >>), None)],
     [name |-> << "m", "a", "r", "g", "i", "n" >>, expr |-> << "1", "p", "x" >>,
      calls |-> DeclarationCalls(<< "m", "a", "r", "g", "i", "n" >>, << Call("term_number", << << "1" >>, << "p", "x" >> >>) >>,
                                 term_number(<< "1" >>, << "p", "x" >>)),
      value |-> property(<< "m", "a", "r", "g", "i", "n" >>, term_number(<< "1" >>, << "p", "x" >>), None)],
     [name |-> << "f", "o", "n", "t" >>, expr |-> << "b", " ", "c" >>,
      calls |-> DeclarationCalls(<< "f", "o", "n", "t" >>,
                  << Call("term_ident", << << "b" >> >>), Call("term_ident", << << "c" >> >>),
                     Call("combine_terms", << term_ident(<< "b" >>), << " " >>, term_ident(<< "c" >>) >>) >>,
                  combine_terms(term_ident(<< "b" >>), << " " >>, term_ident(<< "c" >>))),
      value |-> property(<< "f", "o", "n", "t" >>, combine_terms(term_ident(<< "b" >>), << " " >>, term_ident(<< "c" >>)), None)] >>

\* the well-formed ruleset 'p{q:r}' that follows the rule under study, the
\* hook calls it makes and the element it adds
LaterRule == << "p", "{", "q", ":", "r", "}" >>

LaterCalls ==
  ElementCalls(<< "p" >>)
    \o DeclarationCalls(<< "q" >>, << Call("term_ident", << << "r" >> >>) >>, term_ident(<< "r" >>))
    \o << Call("ruleset", << << ElementSelector(<< "p" >>) >>,
                             << property(<< "q" >>, term_ident(<< "r" >>), None) >> >>) >>

LaterElement == ruleset(<< ElementSelector(<< "p" >>) >>, << property(<< "q" >>, term_ident(<< "r" >>), None) >>)

\* the selectors, the declarations and the block of a ruleset, written
\* without or with the optional whitespace
RenderSelectors(ss, spaced) ==
  Join([i \in DOMAIN ss |-> SelectorPool[ss[i]].src], IF spaced THEN << ",", " " >> ELSE << "," >>)

RenderDeclaration(d, spaced) ==
  DeclarationPool[d].name \o (IF spaced THEN << ":", " " >> ELSE << ":" >>) \o DeclarationPool[d].expr

RenderBlock(ds, spaced) ==
  (IF spaced THEN << "{", " " >> ELSE << "{" >>)
    \o Join([i \in DOMAIN ds |-> RenderDeclaration(ds[i], spaced)], IF spaced THEN << ";", " " >> ELSE << ";" >>)
    \o (IF spaced THEN << " ", "}" >> ELSE << "}" >>)

\* one ruleset, and possibly 'p{q:r}' after it
RulesetInputs ==
  { [kind |-> "ruleset", selectors |-> ss, declarations |-> ds, spaced |-> sp, later |-> l] :
      ss \in SeqsOf(Len(SelectorPool), 1, MaxSelectors),
      ds \in SeqsOf(Len(DeclarationPool), 0, MaxDeclarations),
      sp \in BOOLEAN, l \in BOOLEAN }

RenderRuleset(d) ==
  RenderSelectors(d.selectors, d.spaced) \o (IF d.spaced THEN << " " >> ELSE << >>)
    \o RenderBlock(d.declarations, d.spaced)
    \o (IF d.later THEN LaterRule ELSE << >>)

\* the names of at-rules no handler knows
AtNamePool == << << "u", "n", "k", "n", "o", "w", "n", "-", "t", "h", "i", "n", "g" >>, << "x" >> >>

\* an unknown at-rule with a declaration block ('@unknown-thing { a:1 }'),
\* with or without text between the name and the block, and possibly
\* 'p{q:r}' after it
UnknownInputs ==
  { [kind |-> "unknown", name |-> n, prelude |-> p, declarations |-> ds, spaced |-> sp,
     later |-> l] :
      n \in DOMAIN AtNamePool, p \in BOOLEAN,
      ds \in SeqsOf(Len(DeclarationPool), 0, MaxDeclarations),
      sp \in BOOLEAN, l \in BOOLEAN }

RenderUnknown(d) ==
  << "@" >> \o AtNamePool[d.name] \o (IF d.prelude THEN << " ", "y" >> ELSE << >>)
    \o (IF d.spaced THEN << " " >> ELSE << >>)
    \o RenderBlock(d.declarations, d.spaced)
    \o (IF d.spaced THEN << " " >> ELSE << >>)
    \o (IF d.later THEN LaterRule ELSE << >>)

\* the sources of an @import as they are written, a string or a URI, with
\* the text at_import is to get: "x.css", url("x.css"), 'x.css', url(x.css)
ImportSourcePool ==
  << [src |-> << "\"", "x", ".", "c", "s", "s", "\"" >>, value |-> << "x", ".", "c", "s", "s" >>],
     [src |-> << "u", "r", "l", "(", "\"", "x", ".", "c", "s", "s", "\"", ")" >>, value |-> << "x", ".", "c", "s", "s" >>],
     [src |-> << "'", "x", ".", "c", "s", "s", "'" >>, value |-> << "x", ".", "c", "s", "s" >>],
     [src |-> << "u", "r", "l", "(", "x", ".", "c", "s", "s", ")" >>, value |-> << "x", ".", "c", "s", "s" >>] >>

MediumPool == << << "p", "r", "i", "n", "t" >>, << "s", "c", "r", "e", "e", "n" >> >>

\* one leading @import directive: its source (0 for none), its mediums,
\* whitespace before the ';' or not, the ';' or not, and possibly 'p{q:r}'
\* after it
ImportInputs ==
  { [kind |-> "import", source |-> s, mediums |-> ms, gap |-> g, terminated |-> t, later |-> l] :
      s \in 0 .. Len(ImportSourcePool),
      ms \in SeqsOf(Len(MediumPool), 0, MaxMediums),
      g \in BOOLEAN, t \in BOOLEAN, l \in BOOLEAN }

RenderImport(d) ==
  << "@", "i", "m", "p", "o", "r", "t" >>
    \o (IF d.source = 0 THEN << >> ELSE << " " >> \o ImportSourcePool[d.source].src)
    \o (IF d.mediums = << >> THEN << >>
        ELSE << " " >> \o Join([i \in DOMAIN d.mediums |-> MediumPool[d.mediums[i]]], << ",", " " >>))
    \o (IF d.gap THEN << " " >> ELSE << >>)
    \o (IF d.terminated THEN << ";" >> ELSE << >>)
    \o (IF d.later THEN LaterRule ELSE << >>)

\* the names and the pseudo-pages of an @page rule, '' for none
PageNamePool == << << >>, << "a" >> >>

PseudoPagePool == << << >>, << "f", "i", "r", "s", "t" >>, << "l", "e", "f", "t" >> >>

\* one @page rule ('@page :first { margin-top: 1cm }'), and possibly
\* 'p{q:r}' after it
PageInputs ==
  { [kind |-> "page", name |-> n, pseudo |-> p, declarations |-> ds, spaced |-> sp, later |-> l] :
      n \in DOMAIN PageNamePool, p \in DOMAIN PseudoPagePool,
      ds \in SeqsOf(Len(DeclarationPool), 0, MaxDeclarations),
      sp \in BOOLEAN, l \in BOOLEAN }

RenderPage(d) ==
  << "@", "p", "a", "g", "e", " " >>
    \o PageNamePool[d.name]
    \o (IF PseudoPagePool[d.pseudo] = << >> THEN << >> ELSE << ":" >> \o PseudoPagePool[d.pseudo])
    \o (IF d.spaced THEN << " " >> ELSE << >>)
    \o RenderBlock(d.declarations, d.spaced)
    \o (IF d.later THEN LaterRule ELSE << >>)

\* the operators written in an attribute selector: the seven of
\* attribute_operators, then '$=' and '*='
OperatorPool ==
  << << "=" >>, << "~", "=" >>, << "|", "=" >>, << "&", "=" >>, << "^", "=" >>, << "!", "=" >>, << "<", ">" >>, << "$", "=" >>, << "*", "=" >> >>

\* a ruleset 'a[b OP c]{}' (operator 0 for 'a[b]{}'), the value an
\* identifier or a string, with or without whitespace around the operator,
\* and possibly 'p{q:r}' after it
AttributeInputs ==
  { [kind |-> "attribute", operator |-> o, quoted |-> qu, spaced |-> sp, later |-> l] :
      o \in 0 .. Len(OperatorPool), qu \in BOOLEAN, sp \in BOOLEAN, l \in BOOLEAN }

RenderAttribute(d) ==
  << "a", "[", "b" >>
    \o (IF d.spaced THEN << " " >> ELSE << >>)
    \o (IF d.operator = 0 THEN << >>
        ELSE OperatorPool[d.operator] \o (IF d.spaced THEN << " " >> ELSE << >>)
               \o (IF d.quoted THEN << "\"", "c", "\"" >> ELSE << "c" >>))
    \o << "]", "{", "}" >>
    \o (IF d.later THEN LaterRule ELSE << >>)

\* the places of a ruleset where whitespace may stand
Gaps == { "start", "selector", "open", "name", "colon", "value", "semicolon", "close", "end" }

WhitespacePool == << << " " >>, << "\n", "\t" >> >>

\* a ruleset 'a{...}' with whitespace ws at the places of gaps, and a ';'
\* after the last declaration or not
WhitespaceInputs ==
  { [kind |-> "whitespace", gaps |-> g, ws |-> w, declarations |-> ds, trailing |-> t] :
      g \in SUBSET Gaps, w \in DOMAIN WhitespacePool,
      ds \in { << 1 >>, << 1, 2 >>, << 3 >> }, t \in BOOLEAN }

\* the whitespace of an input at one place
Gap(d, place) == IF place \in d.gaps THEN WhitespacePool[d.ws] ELSE << >>

RenderWhitespace(d) ==
  Gap(d, "start") \o << "a" >> \o Gap(d, "selector") \o << "{" >> \o Gap(d, "open")
    \o Join([i \in DOMAIN d.declarations |->
               DeclarationPool[d.declarations[i]].name \o Gap(d, "name") \o << ":" >> \o Gap(d, "colon")
                 \o DeclarationPool[d.declarations[i]].expr \o Gap(d, "value")],
            << ";" >> \o Gap(d, "semicolon"))
    \o (IF d.trailing THEN << ";" >> \o Gap(d, "semicolon") ELSE << >>)
    \o Gap(d, "close") \o << "}" >> \o Gap(d, "end")

\* the signs, the integral parts, the fractions and the units of a number
\* as they are written, with the numbers they denote: a fraction is
\* n / 10^e
SignPool == << << >>, << "-" >>, << "+" >> >>

IntPool == << [text |-> << >>, n |-> 0], [text |-> << "0" >>, n |-> 0], [text |-> << "5" >>, n |-> 5],
              [text |-> << "1", "0" >>, n |-> 10] >>

FracPool == << [text |-> << >>, n |-> 0, e |-> 0], [text |-> << "5" >>, n |-> 5, e |-> 1],
               [text |-> << "5", "0" >>, n |-> 5, e |-> 1], [text |-> << "2", "5" >>, n |-> 25, e |-> 2] >>

UnitPool == << << >>, << "%" >>, << "e", "m" >> >>

\* a ruleset 'a{b:<number><unit>}'
NumberInputs ==
  { d \in [kind : { "number" }, sign : DOMAIN SignPool, int : DOMAIN IntPool,
           frac : DOMAIN FracPool, unit : DOMAIN UnitPool] :
      IntPool[d.int].text # << >> \/ FracPool[d.frac].text # << >> }

\* the number of an input as it is written
NumberText(d) ==
  SignPool[d.sign] \o IntPool[d.int].text
    \o (IF FracPool[d.frac].text = << >> THEN << >> ELSE << "." >> \o FracPool[d.frac].text)

RenderNumber(d) == << "a", "{", "b", ":" >> \o NumberText(d) \o UnitPool[d.unit] \o << "}" >>

\* string terms as they are written, with the text between the outer
\* quotes: "x", "it's", "", 'x', 'it"s' and ''
StringPool ==
  << [src |-> << "\"", "x", "\"" >>, value |-> << "x" >>], [src |-> << "\"", "i", "t", "'", "s", "\"" >>, value |-> << "i", "t", "'", "s" >>],
     [src |-> << "\"", "\"" >>, value |-> << >>],
     [src |-> << "'", "x", "'" >>, value |-> << "x" >>], [src |-> << "'", "i", "t", "\"", "s", "'" >>, value |-> << "i", "t", "\"", "s" >>],
     [src |-> << "'", "'" >>, value |-> << >>] >>

\* a ruleset 'a{b:<string>}', or 'a{b:<string> c}'
StringInputs ==
  { [kind |-> "string", string |-> s, followed |-> f] : s \in DOMAIN StringPool, f \in BOOLEAN }

\* what follows the string of an input up to the end of the text
AfterString(d) == IF d.followed THEN << " ", "c", "}" >> ELSE << "}" >>

RenderString(d) == << "a", "{", "b", ":" >> \o StringPool[d.string].src \o AfterString(d)

\* the methods the engine can find on a builder or on a selector: those the
\* abstract classes declare and at_frame (line 740)
HookPool ==
  << "set_charset", "begin_stylesheet", "stylesheet", "end_stylesheet", "begin_inline",
     "inline", "end_inline", "ruleset", "resolve_namespace_prefix", "at_charset", "at_import",
     "at_namespace", "at_media", "at_page", "at_font_face", "at_ident", "at_frame",
     "combine_selectors", "selector", "property", "combine_terms", "term_ident", "term_number",
     "term_rgb", "term_uri", "term_string", "term_unicode_range", "term_function",
     "term_unknown", "add_hash_id", "add_class", "add_attribute", "add_attribute_operation",
     "add_pseudo", "add_pseudo_function" >>

\* texts that between them reach every method the engine calls
HookTexts ==
  << << "@", "c", "h", "a", "r", "s", "e", "t", " ", "\"", "u", "\"", ";", "@", "i", "m", "p", "o", "r", "t", " ", "\"", "x", "\"", ";", "@", "n", "a", "m", "e", "s", "p", "a", "c", "e", " ", "n", " ", "\"", "u", "\"", ";" >>,
     << "a", ">", "b", "#", "i", ".", "c", "[", "d", "]", "[", "e", "=", "f", "]", ":", "g", ":", "h", "(", "i", ")", "{", "}" >>,
     << "a", "{", "j", ":", "1", " ", "\"", "s", "\"", " ", "u", "r", "l", "(", "\"", "u", "\"", ")", " ", "f", "(", "1", ")", " ", "#", "f", "f", "f", " ", "n", "|", "y", "}" >>,
     << "a", "{", "b", ":", "?", "}" >>,
     << "@", "m", "e", "d", "i", "a", " ", "p", "{", "a", "{", "}", "}", "@", "p", "a", "g", "e", " ", "{", "}", "@", "f", "o", "n", "t", "-", "f", "a", "c", "e", " ", "{", "}", "@", "f", "r", "a", "m", "e", " ", "f", "{", "}", "@", "x", "{", "}" >> >>

\* a text parsed with a builder that overrides every method but one
DefaultInputs ==
  { [kind |-> "default", hook |-> h, text |-> t] : h \in DOMAIN HookPool, t \in DOMAIN HookTexts }

RenderDefault(d) == HookTexts[d.text]

\* rules with a block, each with the hook that gets the rule and the
\* position of the '{' that opens its block
BlockPool ==
  << [src |-> << "a", "{", "b", ":", "c", ";", "d", ":", "e", "}" >>, hook |-> "ruleset", open |-> 2],
     [src |-> << "@", "m", "e", "d", "i", "a", " ", "p", "{", "a", "{", "b", ":", "c", "}", "}" >>, hook |-> "at_media", open |-> 9],
     [src |-> << "@", "p", "a", "g", "e", " ", "a", "{", "b", ":", "c", ";", "d", ":", "e", "}" >>, hook |-> "at_page", open |-> 8],
     [src |-> << "@", "f", "o", "n", "t", "-", "f", "a", "c", "e", " ", "{", "b", ":", "c", "}" >>, hook |-> "at_font_face", open |-> 12],
     [src |-> << "@", "f", "r", "a", "m", "e", " ", "f", "{", "b", ":", "c", "}" >>, hook |-> "at_frame", open |-> 9] >>

\* a rule whose text ends after the '{' of its block and before the
\* matching '}'
UnterminatedInputs ==
  UNION { { [kind |-> "unterminated", block |-> b, cut |-> n] :
              n \in BlockPool[b].open .. Len(BlockPool[b].src) - 1 } : b \in DOMAIN BlockPool }

RenderUnterminated(d) == Take(BlockPool[d.block].src, d.cut)

\* texts with one @import rule
ImportingPool ==
  << << "@", "i", "m", "p", "o", "r", "t", " ", "\"", "x", ".", "c", "s", "s", "\"", ";" >>,
     << "@", "c", "h", "a", "r", "s", "e", "t", " ", "\"", "u", "\"", ";", "@", "i", "m", "p", "o", "r", "t", " ", "u", "r", "l", "(", "\"", "x", ".", "c", "s", "s", "\"", ")", " ", "p", "r", "i", "n", "t", ";", "a", "{", "}" >> >>

\* the text of the imported resource
ExternalPool ==
  << << "a", "{", "b", ":", "c", "}" >>, << >>, << "a", "{", "b", ":", "c" >>, << "@", "m", "e", "d", "i", "a", " ", "p", "{", "a", "{", "}" >>, << "a", "[", "b", "{", "}" >> >>

\* a text whose import the builder resolves at once, by parseExternal
ExternalInputs ==
  { [kind |-> "external", text |-> t, data |-> x] : t \in DOMAIN ImportingPool, x \in DOMAIN ExternalPool }

RenderExternal(d) == ImportingPool[d.text]

\* the text of the resource that the imports of an input resolve to
External(d) == IF d.kind \in { "external", "resource" } THEN ExternalPool[d.data] ELSE << >>

\* declarations with a '*' where the workaround of lines 968-970 finds it
StarPool ==
  << << "a", "{", "*", "b", ":", "c", "}" >>, << "a", "{", "b", ":", "c", ";", "*", "d", ":", "e", "}" >>, << "a", "{", "b", ":", "c", " ", "*", "d", "}" >>, << "a", "{", "*", "}" >>, << "a", "{", "b", ":", "c", ";", "*" >>, << "@", "p", "a", "g", "e", " ", "{", "*", "b", ":", "c", "}" >>,
     << "@", "p", "a", "g", "e", " ", "{", "b", ":", "c", " ", "*" >>, << "@", "f", "o", "n", "t", "-", "f", "a", "c", "e", " ", "{", "*", " ", "b", "}" >>, << "@", "x", "{", "*", "b", ":", "c", "}" >>, << "a", "{", "b", ":", " ", "*", "c", ";", "d", ":", "e", "}" >> >>

StarInputs == { [kind |-> "star", star |-> s] : s \in DOMAIN StarPool }

RenderStar(d) == StarPool[d.star]

\* selectors of well-formed members joined by combinators, with a last
\* member that _parse_simple_selector returns from without reading anything
CombinatorPool ==
  << [src |-> << "a", " ", ".", "1" >>, members |-> 1],
     [src |-> << "a", ">", ".", "1" >>, members |-> 1],
     [src |-> << "a", " ", "b", " ", ".", "1", " " >>, members |-> 2],
     [src |-> << "a", ">", "b", "+", ".", "1" >>, members |-> 2],
     [src |-> << "a", " ", "b", " ", "c", " ", ".", "1" >>, members |-> 3] >>

CombinatorInputs ==
  { [kind |-> "combinator", selector |-> s, later |-> l] : s \in DOMAIN CombinatorPool, l \in BOOLEAN }

RenderCombinator(d) == CombinatorPool[d.selector].src \o << "{", " ", "}" >> \o (IF d.later THEN << "d", "{", "}" >> ELSE << >>)

\* an unknown at-rule that ends with a ';' and has no block ('@foo bar;'),
\* with or without whitespace after the ';', and possibly 'p{q:r}' after it
SemicolonPool == << << "@", "f", "o", "o", " ", "b", "a", "r", ";" >>, << "@", "f", "o", "o", ";" >>, << "@", "x", " ", "\"", "y", "\"", " ", "z", ";" >> >>

SemicolonInputs ==
  { [kind |-> "semicolon", rule |-> r, spaced |-> sp, later |-> l] :
      r \in DOMAIN SemicolonPool, sp \in BOOLEAN, l \in BOOLEAN }

RenderSemicolon(d) ==
  SemicolonPool[d.rule] \o (IF d.spaced THEN << " " >> ELSE << >>)
    \o (IF d.later THEN LaterRule ELSE << >>)

\* media queries with the keyword 'and', with the mediums before it
MediaQueryPool ==
  << [src |-> << "@", "m", "e", "d", "i", "a", " ", "a", " ", "a", "n", "d", " ", "(", "x", ")" >>, mediums |-> << << "a" >> >>],
     [src |-> << "@", "m", "e", "d", "i", "a", " ", "a", ",", "b", " ", "a", "n", "d", " ", "(", "x", ")", " ", "a", "n", "d", " ", "(", "y", ")" >>, mediums |-> << << "a" >>, << "b" >> >>],
     [src |-> << "@", "m", "e", "d", "i", "a", " ", "a", " ", "a", "n", "d", " ", "b", " " >>, mediums |-> << << "a" >> >>] >>

\* the block of the rule laid out on the line of the query, with the '{'
\* ending that line, and from the next line on
MediaLayoutPool ==
  << << "{", "p", "{", "q", ":", "r", "}", "}" >>, << "{", "\n", "p", "{", "q", ":", "r", "}", "\n", "}" >>, << "\n", "{", "p", "{", "q", ":", "r", "}", "}" >>, << "{", " ", "p", "{", "q", ":", "r", "}", " ", "}" >> >>

MediaAndInputs ==
  { [kind |-> "mediaand", query |-> m, layout |-> l] :
      m \in DOMAIN MediaQueryPool, l \in DOMAIN MediaLayoutPool }

RenderMediaAnd(d) == MediaQueryPool[d.query].src \o MediaLayoutPool[d.layout]

\* the hooks that make a term
TermHooks ==
  { "term_number", "term_uri", "term_string", "term_function", "term_rgb",
    "term_unicode_range", "term_ident", "term_unknown" }

\* a term of each kind, in the order _parse_expression_term tries the
\* kinds, with the term hooks a parse of it is to call: the one of its kind,
\* after those of the terms within it
TermPool ==
  << [src |-> << "1", "2", "p", "x" >>, hooks |-> << "term_number" >>],
     [src |-> << "-", ".", "5" >>, hooks |-> << "term_number" >>],
     [src |-> << "u", "r", "l", "(", "\"", "u", "\"", ")" >>, hooks |-> << "term_uri" >>],
     [src |-> << "u", "r", "l", "(", "u", ")" >>, hooks |-> << "term_uri" >>],
     [src |-> << "\"", "s", "\"" >>, hooks |-> << "term_string" >>],
     [src |-> << "'", "s", "'" >>, hooks |-> << "term_string" >>],
     [src |-> << "f", "(", "1", ")" >>, hooks |-> << "term_number", "term_function" >>],
     [src |-> << "u", "r", "l", "(", "u", " ", "v", ")" >>, hooks |-> << "term_ident", "term_ident", "term_function" >>],
     [src |-> << "#", "f", "f", "f" >>, hooks |-> << "term_rgb" >>],
     [src |-> << "#", "a", "0", "b", "1", "c", "2" >>, hooks |-> << "term_rgb" >>],
     [src |-> << "U", "+", "0", "-", "7", "F" >>, hooks |-> << "term_unicode_range" >>],
     [src |-> << "y" >>, hooks |-> << "term_ident" >>],
     [src |-> << "n", "|", "y" >>, hooks |-> << "term_ident" >>],
     [src |-> << "<e9>" >>, hooks |-> << "term_ident" >>],
     [src |-> << "<3a9>", "<3a9>" >>, hooks |-> << "term_ident" >>] >>

\* a declaration whose value is one term, alone or followed by another
TermInputs ==
  { [kind |-> "term", term |-> t, followed |-> f] : t \in DOMAIN TermPool, f \in BOOLEAN }

RenderTerm(d) ==
  << "a", "{", "b", ":" >> \o TermPool[d.term].src \o (IF d.followed THEN << " ", "1" >> ELSE << >>) \o << "}" >>

\* texts at the place of a term that no kind of term makes a term of
FailedTermPool ==
  << << "?" >>, << "#", "f", "f" >>, << "\"", "s" >>, << "n", "s", "|", "?" >>, << "|", "?" >>, << "*", "|", "?" >>, << "'", "s", "'" >>, << "u", "r", "l", "(", "u", ")" >> >>

FailedTermInputs == { [kind |-> "failed", term |-> t] : t \in DOMAIN FailedTermPool }

RenderFailedTerm(d) == << "a", "{", "b", ":" >> \o FailedTermPool[d.term] \o << "}" >>

\* the most terms of an expression
MaxTerms == 3

\* terms, and operators as they are written and as combine_terms gets them
ExprTermPool ==
  << [src |-> << "x" >>, term |-> term_ident(<< "x" >>), call |-> Call("term_ident", << << "x" >> >>)],
     [src |-> << "1" >>, term |-> term_number(<< "1" >>, None), call |-> Call("term_number", << << "1" >>, None >>)] >>

ExprOperatorPool ==
  << [src |-> << "/" >>, op |-> << "/" >>], [src |-> << "+" >>, op |-> << "+" >>], [src |-> << "," >>, op |-> << "," >>],
     [src |-> << " " >>, op |-> << " " >>], [src |-> << " ", ",", " " >>, op |-> << "," >>] >>

\* an expression as a declaration's value (not list mode), as the arguments
\* of a function and as the arguments of a pseudo-function (list mode)
ExprModes == { "value", "function", "pseudo" }

ExpressionInputs ==
  { d \in [kind : { "expression" }, mode : ExprModes,
           terms : SeqsOf(Len(ExprTermPool), 1, MaxTerms),
           ops : SeqsOf(Len(ExprOperatorPool), 0, MaxTerms - 1)] :
      Len(d.ops) = Len(d.terms) - 1 }

RECURSIVE RenderTerms(_, _)
RenderTerms(d, n) ==
  IF n = 1 THEN ExprTermPool[d.terms[1]].src
  ELSE RenderTerms(d, n - 1) \o ExprOperatorPool[d.ops[n - 1]].src \o ExprTermPool[d.terms[n]].src

RenderExpression(d) ==
  CASE d.mode = "value" -> << "a", "{", "b", ":" >> \o RenderTerms(d, Len(d.terms)) \o << "}" >>
    [] d.mode = "function" -> << "a", "{", "b", ":", "f", "(" >> \o RenderTerms(d, Len(d.terms)) \o << ")", "}" >>
    [] d.mode = "pseudo" -> << "a", ":", "h", "(" >> \o RenderTerms(d, Len(d.terms)) \o << ")", "{", "}" >>

\* runs of 1 to 6 hex digits, and 'U+' as re.I lets it be written
RangeHexPool == << << "0" >>, << "7", "F" >>, << "a" >>, << "1", "2", "3", "4", "5", "6" >> >>

RangePrefixPool == << << "U", "+" >>, << "u", "+" >> >>

RangeInputs ==
  [kind : { "range" }, prefix : DOMAIN RangePrefixPool,
   lo : DOMAIN RangeHexPool, hi : DOMAIN RangeHexPool]

RangeText(d) == RangePrefixPool[d.prefix] \o RangeHexPool[d.lo] \o << "-" >> \o RangeHexPool[d.hi]

RenderRange(d) == << "a", "{", "b", ":" >> \o RangeText(d) \o << "}" >>

\* at-rules after a ruleset, with the hook their at-keyword belongs to: the
\* five known keywords, keywords that begin with one, and another keyword
KeywordPool ==
  << [src |-> << "@", "m", "e", "d", "i", "a", " ", "p", "{", "a", "{", "}", "}" >>, hook |-> "at_media"],
     [src |-> << "@", "p", "a", "g", "e", " ", "{", "b", ":", "c", "}" >>, hook |-> "at_page"],
     [src |-> << "@", "f", "o", "n", "t", "-", "f", "a", "c", "e", " ", "{", "b", ":", "c", "}" >>, hook |-> "at_font_face"],
     [src |-> << "@", "i", "m", "p", "o", "r", "t", " ", "\"", "x", "\"", ";" >>, hook |-> "at_import"],
     [src |-> << "@", "f", "r", "a", "m", "e", " ", "x", "{", "b", ":", "c", "}" >>, hook |-> "at_frame"],
     [src |-> << "@", "m", "e", "d", "i", "a", "q", "u", "e", "r", "y", " ", "p", "{", "a", "{", "}", "}" >>, hook |-> "at_ident"],
     [src |-> << "@", "p", "a", "g", "e", "s", " ", "{", "b", ":", "c", "}" >>, hook |-> "at_ident"],
     [src |-> << "@", "f", "o", "n", "t", "-", "f", "a", "c", "e", "s", " ", "{", "b", ":", "c", "}" >>, hook |-> "at_ident"],
     [src |-> << "@", "i", "m", "p", "o", "r", "t", "a", "n", "t", " ", "\"", "x", "\"", ";" >>, hook |-> "at_ident"],
     [src |-> << "@", "f", "r", "a", "m", "e", "s", " ", "x", "{", "b", ":", "c", "}" >>, hook |-> "at_ident"],
     [src |-> << "@", "x", " ", "{", "b", ":", "c", "}" >>, hook |-> "at_ident"] >>

KeywordInputs == [kind : { "keyword" }, rule : DOMAIN KeywordPool]

RenderKeyword(d) == << "a", "{", "}" >> \o KeywordPool[d.rule].src

\* unknown at-rules with a block, inside an @media block or an @page block,
\* before or after the block's own rule or declaration
NestedPool == << << "@", "x", "{", "}" >>, << "@", "x", " ", "y", "{", "d", ":", "e", "}" >> >>

NestedInputs ==
  [kind : { "nested" }, outer : { "media", "page" }, rule : DOMAIN NestedPool,
   place : { "before", "after" }]

RenderNested(d) ==
  CASE d.outer = "media" /\ d.place = "before" -> << "@", "m", "e", "d", "i", "a", " ", "s", "{" >> \o NestedPool[d.rule] \o LaterRule \o << "}" >>
    [] d.outer = "media" /\ d.place = "after" -> << "@", "m", "e", "d", "i", "a", " ", "s", "{" >> \o LaterRule \o NestedPool[d.rule] \o << "}" >>
    [] d.outer = "page" /\ d.place = "before" -> << "@", "p", "a", "g", "e", " ", "{" >> \o NestedPool[d.rule] \o << " ", "q", ":", "r", "}" >>
    [] d.outer = "page" /\ d.place = "after" -> << "@", "p", "a", "g", "e", " ", "{", "q", ":", "r", ";" >> \o NestedPool[d.rule] \o << "}" >>

\* what stands between a declaration and the '*' of the next one
StarSeparatorPool == << << ";" >>, << ";", " " >>, << " " >> >>

\* a declaration group with a '*'-prefixed property name, after a first
\* declaration or at the start of the group, with or without a declaration
\* after it
StarGroupInputs ==
  [kind : { "stargroup" }, first : BOOLEAN, sep : DOMAIN StarSeparatorPool, later : BOOLEAN]

RenderStarGroup(d) ==
  << "a", "{" >> \o (IF d.first THEN << "b", ":", "c" >> \o StarSeparatorPool[d.sep] ELSE << >>) \o << "*", "d", ":", "e" >>
       \o (IF d.later THEN << ";", "f", ":", "g" >> ELSE << >>) \o << "}" >>

\* the most rules at the top level of a stylesheet
MaxRules == 3

\* top-level rules with the elements they add to the stylesheet: two
\* rulesets, an unknown at-rule that the builder declines, @page and @media
RulePool ==
  << [src |-> << "a", "{", "}" >>, elements |-> << ruleset(<< ElementSelector(<< "a" >>) >>, << >>) >>],
     [src |-> LaterRule, elements |-> << LaterElement >>],
     [src |-> << "@", "x", "{", "}" >>, elements |-> << >>],
     [src |-> << "@", "p", "a", "g", "e", " ", "{", "}" >>, elements |-> << at_page(None, None, << >>) >>],
     [src |-> << "@", "m", "e", "d", "i", "a", " ", "s", "{", "p", "{", "q", ":", "r", "}", "}" >>, elements |-> at_media(<< << "s" >> >>, << LaterElement >>)] >>

SheetInputs == { [kind |-> "sheet", rules |-> rs] : rs \in SeqsOf(Len(RulePool), 0, MaxRules) }

RenderSheet(d) == Flatten([i \in DOMAIN d.rules |-> RulePool[d.rules[i]].src])

\* at-rules whose block follows the keyword, with the call of their hook
KeywordBlockPool ==
  << [keyword |-> << "@", "m", "e", "d", "i", "a" >>, block |-> << "{", "a", "{", "}", "}" >>,
      call |-> Call("at_media", << << >>, << ruleset(<< ElementSelector(<< "a" >>) >>, << >>) >> >>)],
     [keyword |-> << "@", "p", "a", "g", "e" >>, block |-> << "{", "b", ":", "c", "}" >>,
      call |-> Call("at_page", << None, None, << property(<< "b" >>, term_ident(<< "c" >>), None) >> >>)],
     [keyword |-> << "@", "f", "o", "n", "t", "-", "f", "a", "c", "e" >>, block |-> << "{", "b", ":", "c", "}" >>,
      call |-> Call("at_font_face", << << property(<< "b" >>, term_ident(<< "c" >>), None) >> >>)],
     [keyword |-> << "@", "f", "r", "a", "m", "e" >>, block |-> << "{", "b", ":", "c", "}" >>,
      call |-> Call("at_frame", << None, << property(<< "b" >>, term_ident(<< "c" >>), None) >> >>)] >>

\* the whitespace between the keyword and the block
KeywordGapPool == << << " " >>, << >>, << " ", " " >>, << "\t" >> >>

KeywordGapInputs == [kind : { "gap" }, rule : DOMAIN KeywordBlockPool, gap : DOMAIN KeywordGapPool]

RenderKeywordGap(d) ==
  KeywordBlockPool[d.rule].keyword \o KeywordGapPool[d.gap] \o KeywordBlockPool[d.rule].block

\* sources that are not text: byte strings (a byte from 0x80 on is written
\* "xHH") and None
SourceBytesPool ==
  << << "a", "{", "b", ":", "c", "}" >>,
     << "a", "{", "b", ":", "\"" >> \o << "xC3", "xA9" >> \o << "\"", "}" >>,
     << "a", "{", "b", ":", "\"" >> \o << "xE9" >> \o << "\"", "}" >>,
     << "a", "{", "b", ":" >> \o << "xC3", "xBC" >>,
     << "xC3" >> >>

SourceInputs ==
  { [kind |-> "source", type |-> "bytes", data |-> i] : i \in DOMAIN SourceBytesPool }
    \cup { [kind |-> "source", type |-> "NoneType", data |-> 0] }

RenderSource(d) == IF d.type = "bytes" THEN SourceBytesPool[d.data] ELSE None

\* the rootPath of the parser before the import: none, a directory, a URL
RootPathPool == << None, << "/", "s" >>, << "h", "t", "t", "p", ":", "/", "/", "o", "/", "s", "/" >> >>

\* the names of imported resources
ResourcePool == << << "x", ".", "c", "s", "s" >>, << "c", "/", "x", ".", "c", "s", "s" >> >>

\* a text that imports a resource the builder resolves by parseExternal:
\* the rootPath before, the resource's name, whether get_file finds it, and
\* its text
ResourceInputs ==
  [kind : { "resource" }, root : DOMAIN RootPathPool, name : DOMAIN ResourcePool,
   found : BOOLEAN, data : DOMAIN ExternalPool]

RenderResource(d) == << "@", "i", "m", "p", "o", "r", "t", " ", "\"" >> \o ResourcePool[d.name] \o << "\"", ";" >>

Inputs ==
  TruncatedInputs \cup RulesetInputs \cup UnknownInputs \cup ImportInputs \cup PageInputs
    \cup AttributeInputs \cup WhitespaceInputs \cup NumberInputs \cup StringInputs \cup DefaultInputs \cup UnterminatedInputs \cup ExternalInputs \cup StarInputs \cup CombinatorInputs \cup SemicolonInputs \cup MediaAndInputs \cup TermInputs \cup FailedTermInputs \cup ExpressionInputs \cup RangeInputs \cup KeywordInputs \cup NestedInputs \cup StarGroupInputs \cup SheetInputs \cup KeywordGapInputs \cup SourceInputs \cup ResourceInputs

\* the source text of an input
Render(d) ==
  CASE d.kind = "truncated" -> Take(TruncatedBases[d.base], d.cut)
    [] d.kind = "ruleset" -> RenderRuleset(d)
    [] d.kind = "unknown" -> RenderUnknown(d)
    [] d.kind = "import" -> RenderImport(d)
    [] d.kind = "page" -> RenderPage(d)
    [] d.kind = "attribute" -> RenderAttribute(d)
    [] d.kind = "whitespace" -> RenderWhitespace(d)
    [] d.kind = "number" -> RenderNumber(d)
    [] d.kind = "string" -> RenderString(d)
    [] d.kind = "default" -> RenderDefault(d)
    [] d.kind = "unterminated" -> RenderUnterminated(d)
    [] d.kind = "external" -> RenderExternal(d)
    [] d.kind = "star" -> RenderStar(d)
    [] d.kind = "combinator" -> RenderCombinator(d)
    [] d.kind = "semicolon" -> RenderSemicolon(d)
    [] d.kind = "mediaand" -> RenderMediaAnd(d)
    [] d.kind = "term" -> RenderTerm(d)
    [] d.kind = "failed" -> RenderFailedTerm(d)
    [] d.kind = "expression" -> RenderExpression(d)
    [] d.kind = "range" -> RenderRange(d)
    [] d.kind = "keyword" -> RenderKeyword(d)
    [] d.kind = "nested" -> RenderNested(d)
    [] d.kind = "stargroup" -> RenderStarGroup(d)
    [] d.kind = "sheet" -> RenderSheet(d)
    [] d.kind = "gap" -> RenderKeywordGap(d)
    [] d.kind = "source" -> RenderSource(d)
    [] d.kind = "resource" -> RenderResource(d)

\* the methods the builder and the selectors of an input leave to the
\* abstract classes
Defaulted(d) == IF d.kind = "default" THEN { HookPool[d.hook] } ELSE { }

RECURSIVE decode(_)
\* bytes.decode() of line 403, UTF-8: a byte below 0x80 is its character,
\* C3 A9 and C3 BC are the characters E9 and FC, and a byte that begins or
\* continues no sequence raises UnicodeDecodeError
decode(bs) ==
  IF bs = << >> THEN [st |-> "ok", val |-> << >>]
  ELSE IF Len(bs[1]) = 1
    THEN [decode(Tail(bs)) EXCEPT !.val = << bs[1] >> \o @]
  ELSE IF Len(bs) >= 2 /\ bs[1] = "xC3" /\ bs[2] \in { "xA9", "xBC" }
    THEN [decode(Tail(Tail(bs))) EXCEPT !.val = << IF bs[2] = "xA9" THEN "<e9>" ELSE "<fc>" >> \o @]
  ELSE [st |-> "UnicodeDecodeError", val |-> << >>]

\* lines 402-404: a source that is not text is decoded; None has no decode
Prepared(d, s) ==
  IF d.kind # "source" THEN [st |-> "ok", val |-> s]
  ELSE IF d.type = "bytes" THEN decode(s)
  ELSE [st |-> "AttributeError", val |-> << >>]

\* the document's directory, which get_file falls back to (context.py, line
\* 842)
pathDirectory == << "/", "w" >>

RECURSIVE LastChar(_, _, _)
\* s.rfind(c) + 1 within the first i characters
LastChar(s, c, i) == IF i = 0 THEN 0 ELSE IF s[i] = c THEN i ELSE LastChar(s, c, i - 1)

\* urlparse.urlparse(path).scheme (context.py, lines 154 and 392): what
\* stands before the first ':' when it starts with a letter and holds only
\* letters, digits, '+', '-' and '.'
UrlScheme(path) ==
  IF FindChar(path, ":", 1) > 1 /\ path[1] \in Letters
     /\ \A j \in 1 .. FindChar(path, ":", 1) - 1 : path[j] \in Letters \cup Digits \cup { "+", "-", "." }
  THEN Take(path, FindChar(path, ":", 1) - 1)
  ELSE << >>

\* urlparse.urljoin(base, url) (context.py, line 393) for an http base and
\* a relative url without dot segments: url takes the place of what follows
\* the last '/'
urljoin(base, url) == Take(base, LastChar(base, "/", Len(base))) \o url

\* os.path.dirname(os.path.abspath(path)) for an absolute path
dirname(path) ==
  IF LastChar(path, "/", Len(path)) = 1 THEN << "/" >>
  ELSE Take(path, LastChar(path, "/", Len(path)) - 1)

\* get_dir_name(path), context.py lines 153-158
get_dir_name(path) == IF UrlScheme(path) # << >> THEN path ELSE dirname(path)

\* cssFile.uri of the file get_file(name, relative) finds (context.py, lines
\* 389 and 836-842): the name joined to relative, or to pathDirectory
FileUri(name, relative) ==
  IF relative \in { None, << >> } THEN pathDirectory \o << "/" >> \o name
  ELSE IF UrlScheme(relative) # << >> THEN urljoin(relative, name)
  ELSE relative \o << "/" >> \o name

\* self.rootPath when parseExternal(cssResourceName) is left (context.py,
\* lines 388-399), with the file found or not and r what self.parse of the
\* file's data ended with
ExternalRootPath(root, name, found, r) ==
  IF ~found THEN root
  ELSE IF r.st = "ok" THEN root
  ELSE IF root \notin { None, << >> } /\ UrlScheme(root) # << >> THEN urljoin(root, name)
  ELSE get_dir_name(FileUri(name, root))

\* the rootPath, the resource name and the outcome of get_file of an input
ResourceRoot(d) == IF d.kind = "resource" THEN RootPathPool[d.root] ELSE None

ResourceName(d) == IF d.kind = "resource" THEN ResourcePool[d.name] ELSE << "x", ".", "c", "s", "s" >>

ResourceFound(d) == d.kind = "external" \/ (d.kind = "resource" /\ d.found)

Init ==
  /\ input \in Inputs
  /\ rootPath = ResourceRoot(input)
  /\ text = Render(input)
  /\ pc = "ready"
  /\ src = << >>
  /\ stylesheet_elements = << >>
  /\ stylesheet_imports = << >>
  /\ calls = << >>
  /\ err = NoError
  /\ result = None

\* the finally clause of lines 413-414 after the try block has ended with
\* r: an exception of end_stylesheet takes the place of r.  A loop that
\* never ends never gets there
Finally(r) ==
  IF r.st = "Diverge" THEN r
  ELSE Hooked([r EXCEPT !.ev = Append(@, Call("end_stylesheet", << >>))],
              Defaulted(input) \cap { "end_stylesheet" })

\* an exception r leaves parse(): the except clause of lines 410-412 has
\* attached the source to a ParseError
Leave(r) ==
  /\ pc' = IF r.st = "Diverge" THEN "diverged" ELSE "raised"
  /\ err' = IF r.st = "Diverge" THEN err ELSE Escaped(r, cleanup_css(Prepared(input, text).val))
  /\ calls' = calls \o r.ev
  /\ UNCHANGED << input, text, src, stylesheet_elements, stylesheet_imports, result >>

\* the loop of lines 500-512 as it would be if the results of an iteration
\* were put in front of the elements instead of after them
IteratedInFront(r) ==
  /\ src' = r.src
  /\ stylesheet_elements' = r.val \o stylesheet_elements
  /\ calls' = calls \o r.ev
  /\ UNCHANGED << input, text, pc, stylesheet_imports, err, result >>

\* one more iteration of the loop of lines 500-512 has ended
Iterated(r) ==
  /\ src' = r.src
  /\ stylesheet_elements' = stylesheet_elements \o r.val
  /\ calls' = calls \o r.ev
  /\ UNCHANGED << input, text, pc, stylesheet_imports, err, result >>

\* the loop of lines 500-512 is entered after the leading directives; an
\* exception of begin_stylesheet (line 401) leaves parse() before the try
\* block
Entered(prolog) ==
  IF prolog.st # "ok"
    THEN IF "begin_stylesheet" \in Defaulted(input) THEN Leave(prolog)
         ELSE Leave(Finally(prolog))
  ELSE /\ pc' = "stylesheet"
       /\ src' = prolog.src
       /\ stylesheet_imports' = prolog.val
       /\ calls' = calls \o prolog.ev
       /\ UNCHANGED << input, text, stylesheet_elements, err, result >>

\* one iteration of the loop of lines 500-512 ends, or an exception leaves it
Step(r) == IF r.st # "ok" THEN Leave(Finally(r)) ELSE Iterated(r)

\* parse() returns what the stylesheet hook has returned, unless the finally
\* clause raises
Returned(r) ==
  IF r.st # "ok" THEN Leave(r)
  ELSE /\ pc' = "returned"
       /\ result' = r.val
       /\ calls' = calls \o r.ev
       /\ UNCHANGED << input, text, src, stylesheet_elements, stylesheet_imports, err >>

\* parse(src), lines 401-409, up to the loop of _parse_stylesheet
\* (lines 483-497)
Parse ==
  /\ pc = "ready"
  /\ rootPath' = IF ResourceFound(input)
                   THEN ExternalRootPath(rootPath, ResourceName(input), TRUE,
                                         parseExternal(External(input)))
                   ELSE rootPath
  /\ IF "begin_stylesheet" \notin Defaulted(input) /\ Prepared(input, text).st # "ok"
       THEN Leave(Raise(Prepared(input, text).st, "", << >>, << >>,
                        << Call("begin_stylesheet", << >>) >>))
       ELSE Entered(Imported(Hooked(Propagate(self("StylesheetProlog",
                                                   << cleanup_css(Prepared(input, text).val) >>),
                                              << Call("begin_stylesheet", << >>) >>),
                                    Defaulted(input)),
                             ResourceFound(input), External(input)))

\* lines 501-505 and 512: an at-rule at the top level
StylesheetAtKeyword ==
  /\ pc = "stylesheet"
  /\ UNCHANGED rootPath
  /\ src # << >>
  /\ StartsWith(src, << "@" >>)
  /\ Step(Hooked(self("StylesheetElement", << src >>), Defaulted(input)))

\* lines 506-509 and 512: a ruleset at the top level
StylesheetRuleset ==
  /\ pc = "stylesheet"
  /\ UNCHANGED rootPath
  /\ src # << >>
  /\ ~StartsWith(src, << "@" >>)
  /\ Step(Hooked(self("StylesheetElement", << src >>), Defaulted(input)))

\* lines 514-515 and 413-415: the loop is left, the stylesheet is built and
\* returned
StylesheetReturn ==
  /\ pc = "stylesheet"
  /\ UNCHANGED rootPath
  /\ src = << >>
  /\ Returned(Finally(Hooked(Ok(src, stylesheet(stylesheet_elements, stylesheet_imports),
                                << Call("stylesheet",
                                        << stylesheet_elements, stylesheet_imports >>) >>),
                             Defaulted(input))))

Next ==
  \/ Parse
  \/ StylesheetAtKeyword
  \/ StylesheetRuleset
  \/ StylesheetReturn

Spec == Init /\ [][Next]_vars

(***************************************************************************)
(* What parse() is to guarantee.                                           *)
(***************************************************************************)
\* the calls of one hook among the calls made so far, in order
CallsOf(hook) == SelectSeq(calls, LAMBDA c : c.h = hook)

\* C1: parse() either returns or raises CSSParseError: no other exception
\* type (IndexError, TypeError, AttributeError) escapes, whatever the text
C1_OnlyParseErrorEscapes == pc = "raised" => err.type = "CSSParseError"

\* C2: parse() terminates on every finite text: no loop of the engine runs
\* an iteration that leaves it where it started
C2_ParseTerminates == pc # "diverged"

\* a ruleset input one of whose selectors is malformed
MalformedMember ==
  /\ input.kind = "ruleset"
  /\ \E i \in DOMAIN input.selectors : ~SelectorPool[input.selectors[i]].wellFormed

\* C3: a malformed selector, alone or as one member of a comma-separated
\* group, never makes parse() raise, and the well-formed ruleset after it
\* is still dispatched to the ruleset hook
C3_MalformedSelectorRecovered ==
  MalformedMember =>
    /\ pc \notin { "raised", "diverged" }
    /\ pc = "returned" /\ input.later => LaterCalls[Len(LaterCalls)] \in Range(calls)

\* a ruleset input whose selectors are all well-formed
WellFormedRuleset ==
  /\ input.kind = "ruleset"
  /\ \A i \in DOMAIN input.selectors : SelectorPool[input.selectors[i]].wellFormed

\* the selectors and the properties the ruleset hook is to get for an input
ExpectedSelectors(d) == [i \in DOMAIN d.selectors |-> SelectorPool[d.selectors[i]].value]

ExpectedProperties(d) == [i \in DOMAIN d.declarations |-> DeclarationPool[d.declarations[i]].value]

\* C4: for n well-formed comma-separated selectors and a block of m
\* declarations the ruleset hook is called exactly once, with exactly the n
\* selectors and the m properties, each list in source order
C4_RulesetDispatchedOnce ==
  WellFormedRuleset =>
    /\ pc \notin { "raised", "diverged" }
    /\ pc = "returned" =>
         CallsOf("ruleset") =
           << Call("ruleset", << ExpectedSelectors(input), ExpectedProperties(input) >>) >>
             \o (IF input.later THEN << LaterCalls[Len(LaterCalls)] >> ELSE << >>)

\* 'a, b.c { color: red; margin: 1px }' has been parsed
C4_Witness ==
  /\ WellFormedRuleset
  /\ pc = "returned"
  /\ input.selectors = << 1, 2 >>
  /\ input.declarations = << 1, 2 >>
  /\ input.spaced
  /\ ~input.later
  /\ Len(CallsOf("ruleset")) = 1

\* the hook calls of the declarations of an input, in source order
ExpectedDeclarationCalls(d) ==
  Flatten([i \in DOMAIN d.declarations |-> DeclarationPool[d.declarations[i]].calls])

\* the elements of the stylesheet of an input whose first rule adds none
LaterElements(d) == IF d.later THEN << LaterElement >> ELSE << >>

\* the hook calls from the rule after the first one on, as a parse of that
\* rule alone makes them after begin_stylesheet
LaterParseCalls(d) ==
  (IF d.later THEN LaterCalls ELSE << >>)
    \o << Call("stylesheet", << LaterElements(d), << >> >>), Call("end_stylesheet", << >>) >>

\* the at-rule of an unknown input has been skipped and nothing after it
\* has been parsed yet
UnknownSkipped ==
  /\ input.kind = "unknown"
  /\ pc = "stylesheet"
  /\ CallsOf("at_ident") # << >>
  /\ CallsOf("ruleset") = << >>

\* C5: an unknown at-rule with a declaration block that the builder
\* declines does not make parse() raise, adds no stylesheet element, leaves
\* the cursor right after the block's closing '}', and the rules after it
\* are parsed and dispatched as if it were absent
C5_DeclinedAtRuleSkipped ==
  input.kind = "unknown" =>
    /\ pc \notin { "raised", "diverged" }
    /\ UnknownSkipped =>
         /\ stylesheet_elements = << >>
         /\ src = IF input.later THEN LaterRule ELSE << >>
    /\ pc = "returned" =>
         /\ result = stylesheet(LaterElements(input), << >>)
         /\ calls = << Call("begin_stylesheet", << >>),
                       Call("at_ident", << AtNamePool[input.name],
                                           Drop(text, 1 + Len(AtNamePool[input.name])) >>) >>
                      \o ExpectedDeclarationCalls(input)
                      \o LaterParseCalls(input)

\* '@unknown-thing {color:red}p{q:r}' has been parsed
C5_Witness ==
  /\ input.kind = "unknown"
  /\ AtNamePool[input.name] = << "u", "n", "k", "n", "o", "w", "n", "-", "t", "h", "i", "n", "g" >>
  /\ input.declarations = << 1 >>
  /\ input.later
  /\ pc = "returned"
  /\ CallsOf("at_ident") # << >>
  /\ result.elements = << LaterElement >>

\* an @import input with a source and the terminating ';'
WellFormedImport == input.kind = "import" /\ input.source # 0 /\ input.terminated

\* the mediums at_import is to get for an input
ExpectedMediums(d) ==
  IF d.mediums = << >> THEN << << "a", "l", "l" >> >> ELSE [i \in DOMAIN d.mediums |-> MediumPool[d.mediums[i]]]

\* C6: a leading @import with a string or URI source and the terminating
\* ';' gets at_import called exactly once, with the mediums written between
\* the two in source order, or ['all'] for none; one without a source or
\* without the ';' raises CSSParseError and at_import is not called
C6_ImportDispatchedOnce ==
  input.kind = "import" =>
    /\ WellFormedImport =>
         /\ pc \notin { "raised", "diverged" }
         /\ pc # "ready" =>
              CallsOf("at_import") =
                << Call("at_import", << ImportSourcePool[input.source].value,
                                        ExpectedMediums(input) >>) >>
    /\ ~WellFormedImport =>
         /\ pc \in { "ready", "raised" }
         /\ pc = "raised" => err.type = "CSSParseError"
         /\ CallsOf("at_import") = << >>

\* an @page input with a pseudo-page
PseudoPageRule == input.kind = "page" /\ PseudoPagePool[input.pseudo] # << >>

\* C7: an @page rule with a ':pseudo-page' suffix, with or without a page
\* name before it, does not raise and gets at_page called exactly once,
\* with the page key '<name>_<pseudo>' and the pseudo-page
C7_PseudoPageKeyed ==
  PseudoPageRule =>
    /\ pc \notin { "raised", "diverged" }
    /\ pc = "returned" =>
         /\ Len(CallsOf("at_page")) = 1
         /\ LET a == CallsOf("at_page")[1].a
                suffix == << "_" >> \o PseudoPagePool[input.pseudo]
            IN  /\ Len(a[1]) >= Len(suffix)
                /\ Drop(a[1], Len(a[1]) - Len(suffix)) = suffix
                /\ PageNamePool[input.name] # << >> => a[1] = PageNamePool[input.name] \o suffix
                /\ a[2] = PseudoPagePool[input.pseudo]
                /\ a[3] = ExpectedProperties(input)

\* an attribute input whose operator is none of attribute_operators
UnrecognizedOperator ==
  /\ input.kind = "attribute"
  /\ input.operator # 0
  /\ OperatorPool[input.operator] \notin Range(attribute_operators)

\* C8: an attribute selector '[attr OP value]' whose operator is not one of
\* attribute_operators falls back to presence-only: add_attribute(attr) is
\* called on the selector, the text is consumed through the ']', and
\* nothing is raised
C8_UnrecognizedOperatorPresenceOnly ==
  UnrecognizedOperator =>
    /\ pc \notin { "raised", "diverged" }
    /\ pc = "returned" =>
         /\ CallsOf("ruleset") # << >>
         /\ CallsOf("ruleset")[1].a[1] =
              << add_qualifier(ElementSelector(<< "a" >>), "add_attribute", << << "b" >> >>) >>

\* the text of a whitespace input without any of the whitespace
Compact(d) == RenderWhitespace([d EXCEPT !.gaps = { }])

\* C9: whitespace before or after the selector, '{', ':', ';', '}' and at
\* the start or the end of the text does not change the parse of a ruleset:
\* the hook calls are those of the text without the whitespace, with the
\* same name, value term and important flag for every declaration
C9_WhitespaceInsignificant ==
  input.kind = "whitespace" =>
    /\ pc \notin { "raised", "diverged" }
    /\ pc = "returned" =>
         /\ calls = parse(Compact(input)).ev
         /\ CallsOf("ruleset") =
              << Call("ruleset", << << ElementSelector(<< "a" >>) >>, ExpectedProperties(input) >>) >>

\* '  a  {  color : red ; }  ' has been parsed
C9_Witness ==
  /\ input.kind = "whitespace"
  /\ input.gaps = Gaps \ { "close" }
  /\ input.declarations = << 1 >>
  /\ input.trailing
  /\ text # Compact(input)
  /\ pc = "returned"
  /\ Len(CallsOf("property")) = 1

\* the digits, and the number a digit denotes
DigitChars == << "0", "1", "2", "3", "4", "5", "6", "7", "8", "9" >>

DigitValue(c) == (CHOOSE i \in DOMAIN DigitChars : DigitChars[i] = c) - 1

RECURSIVE DigitsValue(_, _)
\* the number a run of digits after the number acc denotes
DigitsValue(s, acc) ==
  IF s = << >> THEN acc ELSE DigitsValue(Tail(s), 10 * acc + DigitValue(Head(s)))

RECURSIVE StripZeros(_)
\* a fraction without its trailing zeros
StripZeros(s) == IF s # << >> /\ s[Len(s)] = "0" THEN StripZeros(Take(s, Len(s) - 1)) ELSE s

RECURSIVE Pow10(_)
Pow10(e) == IF e = 0 THEN 1 ELSE 10 * Pow10(e - 1)

\* the number n / 10^e a numeric text denotes, e the least possible
DecimalValue(t) ==
  LET body == IF At(t, 1) \in { "-", "+" } THEN Tail(t) ELSE t
      dot == FindChar(body, ".", 1)
      int == IF dot = 0 THEN body ELSE Take(body, dot - 1)
      frac == IF dot = 0 THEN << >> ELSE StripZeros(Drop(body, dot))
      n == DigitsValue(int \o frac, 0)
  IN  [n |-> IF At(t, 1) = "-" THEN 0 - n ELSE n, e |-> Len(frac)]

\* the number an input denotes
ExpectedValue(d) ==
  LET n == IntPool[d.int].n * Pow10(FracPool[d.frac].e) + FracPool[d.frac].n
  IN  [n |-> IF SignPool[d.sign] = << "-" >> THEN 0 - n ELSE n, e |-> FracPool[d.frac].e]

\* C10: a number term is dispatched to term_number with the numeric text
\* as it is written, the leading-dot form whole, and as unit the '%' or the
\* identifier right after the digits, None when nothing follows: '.5em' and
\* '0.5em' give the unit 'em' and texts that denote the same number
C10_NumberAndUnit ==
  input.kind = "number" =>
    /\ pc \notin { "raised", "diverged" }
    /\ pc = "returned" =>
         /\ CallsOf("term_number") =
              << Call("term_number",
                      << NumberText(input),
                         IF UnitPool[input.unit] = << >> THEN None ELSE UnitPool[input.unit] >>) >>
         /\ DecimalValue(CallsOf("term_number")[1].a[1]) = ExpectedValue(input)

\* 'a{b:.5em}' has been parsed
C10_Witness ==
  /\ input.kind = "number"
  /\ NumberText(input) = << ".", "5" >>
  /\ UnitPool[input.unit] = << "e", "m" >>
  /\ pc = "returned"
  /\ CallsOf("term_number") = << Call("term_number", << << ".", "5" >>, << "e", "m" >> >>) >>
  /\ ExpectedValue(input) = ExpectedValue([input EXCEPT !.int = 2])

\* C11: a quoted string term, single- or double-quoted, also one that holds
\* the other quote character, is consumed whole and dispatched as exactly
\* one term_string call with the text between the outer quotes; where the
\* string pattern matches, _get_string returns that text, never None
\* together with an advanced cursor
C11_StringTermWhole ==
  input.kind = "string" =>
    /\ _get_string(StringPool[input.string].src \o AfterString(input), "re_string")
         = [val |-> StringPool[input.string].value, src |-> AfterString(input)]
    /\ pc \notin { "raised", "diverged" }
    /\ pc = "returned" =>
         CallsOf("term_string") = << Call("term_string", << StringPool[input.string].value >>) >>

\* the method an input leaves to the abstract class has been called
DefaultReached == input.kind = "default" /\ CallsOf(HookPool[input.hook]) # << >>

\* C12: every method the engine calls on a builder or a selector that does
\* not override it fails with NotImplementedError: none returns a value
\* silently, and each is declared, with the arguments the engine passes, so
\* that no other error comes of the call
C12_DefaultHooksFailLoudly ==
  DefaultReached => pc = "raised" /\ err.type = "NotImplementedError"

\* C13: a block opened with '{' (of a ruleset, @media, @page, @font-face or
\* @frame) that the end of the text leaves without its '}' is never
\* accepted: parse() raises CSSParseError and the hook of the rule is not
\* called for it
C13_UnterminatedBlockRaises ==
  input.kind = "unterminated" =>
    /\ pc \notin { "returned", "diverged" }
    /\ pc = "raised" => err.type = "CSSParseError"
    /\ CallsOf(BlockPool[input.block].hook) = << >>

(***************************************************************************)
(* The exception class on its own: an object from its construction on,     *)
(* with setFullCSSSource called on it by the handlers of lines 410-411,    *)
(* 424-425 and 451-452 of whatever entry points it passes.                 *)
(***************************************************************************)
MaxErrorLen == 2
MaxAttach == 2

ErrorChars == { "a", "b" }

ErrorTexts == UNION { [1 .. n -> ErrorChars] : n \in 0 .. MaxErrorLen }

ErrorInit ==
  /\ input = [kind |-> "error"]
  /\ text = << >>
  /\ pc = "raised"
  /\ src = << >>
  /\ stylesheet_elements = << >>
  /\ stylesheet_imports = << >>
  /\ calls = << >>
  /\ err \in { CSSParseError("", s, c) : s \in ErrorTexts, c \in ErrorTexts \cup { None } }
  /\ result = None
  /\ rootPath = None

\* err.setFullCSSSource(src) of line 411, err.setFullCSSSource(src,
\* inline=True) of lines 425 and 452
SetFullCSSSource ==
  /\ err.attached < MaxAttach
  /\ \E fullsrc \in ErrorTexts, inline \in BOOLEAN :
       err' = setFullCSSSource(err, fullsrc, inline)
  /\ UNCHANGED << input, text, pc, src, stylesheet_elements, stylesheet_imports, calls, result,
                  rootPath >>

ErrorNext == SetFullCSSSource

ErrorSpec == ErrorInit /\ [][ErrorNext]_vars

\* the text s holds sub at index i, counted from 0
OccursAt(s, sub, i) ==
  /\ s # None
  /\ i \in 0 .. Len(s)
  /\ StartsWith(Drop(s, i), sub)

\* C14: each of srcCtxIdx, srcFullIdx and ctxsrcFullIdx of a CSSParseError is
\* at all times, after the construction and after every setFullCSSSource
\* call, either absent or an index at which the fragment it was searched
\* for occurs in the text it was searched in
C14_IndicesLocate ==
  /\ "srcCtxIdx" \in DOMAIN err.indices =>
       OccursAt(err.ctxsrc, err.src, err.indices.srcCtxIdx)
  /\ "srcFullIdx" \in DOMAIN err.indices =>
       OccursAt(err.fullsrc, err.src, err.indices.srcFullIdx)
  /\ "ctxsrcFullIdx" \in DOMAIN err.indices =>
       OccursAt(err.fullsrc, err.ctxsrc, err.indices.ctxsrcFullIdx)

\* C15: a CSSParseError that leaves parse() has had the full source attached
\* exactly once, by the one setFullCSSSource call of the entry point the
\* caller entered, also when it was raised by a parse nested in a hook (an
\* import that the builder resolves through parseExternal)
C15_FullSourceAttachedOnce ==
  pc = "raised" /\ err.type = "CSSParseError" =>
    /\ err.attached = 1
    /\ err.fullsrc = cleanup_css(text)

\* the cursors a parse of the text t can have: its suffixes, and what the
\* workaround of lines 968-970 makes of a suffix that starts with '*'
Cursors(t) ==
  { Drop(t, i) : i \in 0 .. Len(t) }
    \cup { kw_nothing \o Drop(t, i) : i \in { j \in 1 .. Len(t) : t[j] = "*" } }

\* the calls of the productions (the _parse_* methods) the engine can make
\* at the cursor s, each as << method, arguments >>
ProductionCalls(s) ==
  { << "_parse_stylesheet", << s >> >>,
    << "_parse_at_charset", << s >> >>,
    << "_parse_at_imports", << s, << >>, << >> >> >>,
    << "_parse_at_namespace", << s >> >>,
    << "_parse_ruleset", << s >> >>,
    << "_parse_selector_group", << s, << >>, << >> >> >>,
    << "_parse_selector", << s >> >>,
    << "_parse_simple_selector", << s >> >>,
    << "_parse_declaration_group", << s, TRUE >> >>,
    << "_parse_declaration_group", << s, FALSE >> >>,
    << "_parse_declaration", << s >> >>,
    << "_parse_declaration_property", << s, << "a" >> >> >>,
    << "_parse_expression", << s, TRUE >> >>,
    << "_parse_expression", << s, FALSE >> >>,
    << "_parse_expression_term", << s >> >> }
    \cup (IF StartsWith(s, << "@" >>)
          THEN { << "_parse_at_keyword", << s >> >>, << "_parse_at_ident", << s >> >> }
          ELSE { })
    \cup (IF is_at_rule_ident(s, kw_media) THEN { << "_parse_at_media", << s >> >> } ELSE { })
    \cup (IF is_at_rule_ident(s, kw_page) THEN { << "_parse_at_page", << s >> >> } ELSE { })
    \cup (IF is_at_rule_ident(s, kw_font_face) THEN { << "_parse_at_font_face", << s >> >> } ELSE { })
    \cup (IF is_at_rule_ident(s, kw_frame) THEN { << "_parse_at_frame", << s >> >> } ELSE { })
    \cup (IF StartsWith(s, << "[" >>)
          THEN { << "_parse_selector_attribute", << s, selector(<< "a" >>) >> >> } ELSE { })
    \cup (IF StartsWith(s, << ":" >>)
          THEN { << "_parse_selector_pseudo", << s, selector(<< "a" >>) >> >> } ELSE { })

\* the families of inputs whose texts supply the cursors
CursorKinds == { "star", "unterminated", "truncated", "string", "attribute", "external" }

\* the production call c returns, with a remainder that is no longer than
\* the text s
ReturnsWithin(c, s) == self(c[1], c[2]).st = "ok" => Len(self(c[1], c[2]).src) <= Len(s)

\* C16: a production called at any cursor of the parse that returns has a
\* remainder no longer than the text it was called with, _parse_s_cdo_cdc
\* and the declaration group with its '*' workaround included
C16_RemainderNeverLonger ==
  input.kind \in CursorKinds =>
    \A s \in Cursors(text) :
      /\ Len(_parse_s_cdo_cdc(s)) <= Len(s)
      /\ \A c \in ProductionCalls(s) : ReturnsWithin(c, s)

\* the workaround has acted in a parse that returns: a property whose name
\* starts with the text the '*' was replaced by has been dispatched
C16_Witness ==
  /\ input.kind = "star"
  /\ pc = "returned"
  /\ \E i \in DOMAIN CallsOf("property") : StartsWith(CallsOf("property")[i].a[1], kw_nothing)

\* C17: when _parse_simple_selector, called in the combinator loop of
\* _parse_selector, returns without having read anything, the engine
\* recovers at once, whichever iteration of the loop it is: the loop ends
\* and combine_selectors is called for the well-formed members only
C17_RecoveryAtEveryIteration ==
  input.kind = "combinator" =>
    /\ pc # "diverged"
    /\ Len(CallsOf("combine_selectors")) <= CombinatorPool[input.selector].members - 1

\* C18: an unknown at-rule that the builder declines and that has a ';'
\* before any '{' is skipped up to that ';': parse() does not raise, the
\* cursor resumes right after the ';' and the whitespace that follows it,
\* and the rules after it are parsed and dispatched
C18_SkippedToSemicolon ==
  input.kind = "semicolon" =>
    /\ pc \notin { "raised", "diverged" }
    /\ pc = "stylesheet" /\ CallsOf("at_ident") # << >> /\ CallsOf("ruleset") = << >> =>
         src = IF input.later THEN LaterRule ELSE << >>
    /\ pc = "returned" =>
         /\ result = stylesheet(LaterElements(input), << >>)
         /\ input.later => LaterCalls[Len(LaterCalls)] \in Range(calls)

\* C19: an @media rule whose query holds the keyword 'and' is read from the
\* next '{' after the keyword on: parse() does not raise, and at_media gets
\* the mediums before the 'and' and the rules of the block, whether the
\* block is on the line of the query or on the lines after it
C19_MediaAndSkipsToBlock ==
  input.kind = "mediaand" =>
    /\ pc \notin { "raised", "diverged" }
    /\ pc = "returned" =>
         CallsOf("at_media") = << Call("at_media", << MediaQueryPool[input.query].mediums,
                                                      << LaterElement >> >>) >>

\* the names of the term hooks among the calls, in the order of the calls
TermCalls == [i \in DOMAIN SelectSeq(calls, LAMBDA c : c.h \in TermHooks) |->
                SelectSeq(calls, LAMBDA c : c.h \in TermHooks)[i].h]

\* C20: for a term of any kind (number, URI, string, function call, RGB
\* color, unicode range, identifier, non-ASCII run) _parse_expression_term
\* calls the hook of that kind, the first kind in its order whose pattern
\* matches, and no other term hook: term_unknown is not called for a term
\* that a kind matches, and parse() does not raise
C20_TermKindDispatched ==
  input.kind = "term" =>
    /\ pc \notin { "raised", "diverged" }
    /\ pc = "returned" =>
         TermCalls = TermPool[input.term].hooks
                       \o (IF input.followed THEN << "term_number" >> ELSE << >>)

\* C21: a kind of term that _parse_expression_term tries without getting a
\* term from it consumes nothing: term_unknown, which comes last, gets the
\* text the term started with, a namespace prefix that no identifier
\* follows included
C21_FailedAttemptConsumesNothing ==
  input.kind = "failed" =>
    \A i \in DOMAIN CallsOf("term_unknown") :
      CallsOf("term_unknown")[i].a[1] = FailedTermPool[input.term] \o << "}" >>

RECURSIVE Fold(_, _)
\* the first n terms of an expression combined from left to right
Fold(d, n) ==
  IF n = 1 THEN ExprTermPool[d.terms[1]].term
  ELSE combine_terms(Fold(d, n - 1), ExprOperatorPool[d.ops[n - 1]].op, ExprTermPool[d.terms[n]].term)

\* what the caller of _parse_expression hands to the builder
ExpressionResult ==
  CASE input.mode = "value" -> CallsOf("property")[1].a[2]
    [] input.mode = "function" -> CallsOf("term_function")[1].a[2]
    [] input.mode = "pseudo" -> CallsOf("add_pseudo_function")[1].a[2]

\* C22: in list mode (the arguments of a function and of a pseudo-function) a
\* single term is wrapped by combine_terms(term, None, None), as a
\* declaration's value it is left as it is, and several terms are combined
\* from left to right, each with the operator written before it, ' ' when
\* none of '/', '+', ',' is
C22_ExpressionFolded ==
  (input.kind = "expression" /\ pc = "returned") =>
    /\ Len(CallsOf(IF input.mode = "value" THEN "property"
                   ELSE IF input.mode = "function" THEN "term_function"
                   ELSE "add_pseudo_function")) = 1
    /\ ExpressionResult =
         IF Len(input.terms) = 1 /\ input.mode # "value"
           THEN combine_terms(Fold(input, 1), None, NoneTerm)
           ELSE Fold(input, Len(input.terms))
    /\ Len(CallsOf("combine_terms")) =
         IF Len(input.terms) = 1 THEN (IF input.mode = "value" THEN 0 ELSE 1)
         ELSE Len(input.terms) - 1

C22_Witness ==
  /\ input.kind = "expression" /\ pc = "returned" /\ input.mode = "pseudo"
  /\ Len(input.terms) = 1
  /\ CallsOf("combine_terms") = << Call("combine_terms", << Fold(input, 1), None, NoneTerm >>) >>

\* C23: 'U+', 1 to 6 hex digits, '-', 1 to 6 hex digits as a declaration's
\* value is a unicode-range term: parse() does not raise and calls
\* term_unicode_range once, with the text of the range
C23_UnicodeRangeTerm ==
  (input.kind = "range" /\ pc \in { "returned", "raised" }) =>
    /\ pc = "returned"
    /\ CallsOf("term_unicode_range") = << Call("term_unicode_range", << RangeText(input) >>) >>

\* the hooks of the at-rules
AtHooks == { "at_media", "at_page", "at_font_face", "at_import", "at_frame", "at_ident" }

\* C24: the at-rule is dispatched by its whole at-keyword: one of the five
\* known keywords goes to its handler and hook, every other keyword, one that
\* begins with a known keyword included, goes to the at_ident hook
C24_DispatchByWholeKeyword ==
  (input.kind = "keyword" /\ pc \in { "returned", "raised" }) =>
    { calls[i].h : i \in DOMAIN calls } \cap AtHooks = { KeywordPool[input.rule].hook }

\* C25: an unknown at-rule the builder declines, inside an @media or an @page
\* block: parse() does not raise, and the enclosing rule's hook gets the
\* block's own rule or declaration and nothing for the unknown rule
C25_DeclinedAtRuleIgnoredInBlock ==
  (input.kind = "nested" /\ pc \in { "returned", "raised" }) =>
    /\ pc = "returned"
    /\ input.outer = "media" =>
         /\ Len(CallsOf("at_media")) = 1
         /\ CallsOf("at_media")[1].a[2] = << LaterElement >>
    /\ input.outer = "page" =>
         /\ Len(CallsOf("at_page")) = 1
         /\ CallsOf("at_page")[1].a[3] = << property(<< "q" >>, term_ident(<< "r" >>), None) >>

\* the declarations the property hook returned, in the order of its calls
PropertiesMade ==
  [i \in DOMAIN CallsOf("property") |->
     property(CallsOf("property")[i].a[1], CallsOf("property")[i].a[2], CallsOf("property")[i].a[3])]

\* C26: the declarations _parse_declaration_group returns are the ones the
\* property hook was called for, each once and in the order of the source:
\* the '*' workaround puts a placeholder at the start of the property name
\* and drops no declaration parsed before it
C26_NoDeclarationDropped ==
  (input.kind = "stargroup" /\ pc = "returned") =>
    /\ Len(CallsOf("ruleset")) = 1
    /\ CallsOf("ruleset")[1].a[2] = PropertiesMade

\* the elements of the first n rules of an input, in source order
SheetElements(d, n) == Flatten([i \in 1 .. n |-> RulePool[d.rules[i]].elements])

\* the hooks of the rules
RuleHooks == { "ruleset", "at_media", "at_page", "at_font_face", "at_import", "at_frame", "at_ident" }

C29_KeywordAndWhitespaceOnly ==
  (input.kind = "gap" /\ pc \in { "returned", "raised" }) =>
    /\ pc = "returned"
    /\ CallsOf(KeywordBlockPool[input.rule].call.h) = << KeywordBlockPool[input.rule].call >>

\* C28: parse() calls begin_stylesheet once, before every other hook, and
\* end_stylesheet once, after every other hook, whether it returns or raises,
\* also when the source cannot be made text after begin_stylesheet was called
C28_LifecycleHooksBalanced ==
  (input.kind \notin { "default", "external", "resource" } /\ pc \in { "returned", "raised" }) =>
    /\ Len(CallsOf("begin_stylesheet")) = 1
    /\ Len(CallsOf("end_stylesheet")) = 1
    /\ calls[1].h = "begin_stylesheet"
    /\ calls[Len(calls)].h = "end_stylesheet"

\* C30: parseExternal leaves rootPath as it was before the call, whether it
\* returns the parsed sheet, returns None for a resource that is not found,
\* or the nested parse() raises
C30_RootPathRestored ==
  (input.kind \in { "resource", "external" } /\ pc # "ready") => rootPath = ResourceRoot(input)

====
